---- MODULE Spec2Model ----
(***************************************************************************)
(* A model of the visualization engine's two core protocols:               *)
(*                                                                         *)
(*  - the shared-memory seqlock channel between geometry_writer (the       *)
(*    producer process, tools/geometry_writer.cpp) and                     *)
(*    SharedGeometryReader::tryRead (the consumer, ipc/shared_geometry.cpp)*)
(*  - the renderer's staging ring and frame slots                          *)
(*    (vulkan/vulkan_renderer_buffers.cpp, vulkan_renderer_commands.cpp).  *)
(*                                                                         *)
(* The two processes run concurrently: each action below is one access to  *)
(* the shared region (or one block of accesses the source performs with no *)
(* other shared access in between), so the interleavings of the actions    *)
(* are the interleavings of the processes.                                 *)
(***************************************************************************)
EXTENDS Integers, Sequences, FiniteSets, TLC

(***************************************************************************)
(* Program constants.                                                      *)
(***************************************************************************)
SharedGeometryMagic == 1296975175           \* 0x4D4F4547
SharedGeometryVersion == 1
SharedGeometryMaxAttributes == 8
SharedGeometryMaxVertexBytes == 4194304     \* 4 * 1024 * 1024
SharedGeometryMaxIndexBytes == 2097152      \* 2 * 1024 * 1024
SizeofVertex == 24                          \* sizeof(Vertex): two glm::vec3
OffsetofColor == 12                         \* offsetof(Vertex, color)
SizeofUint16 == 2
SizeofUint32 == 4
VK_INDEX_TYPE_UINT16 == 0
VK_INDEX_TYPE_UINT32 == 1
VK_PRIMITIVE_TOPOLOGY_TRIANGLE_LIST == 3
VK_VERTEX_INPUT_RATE_VERTEX == 0
VK_FORMAT_R32G32B32_SFLOAT == 106
Uint32Bits == 32                            \* width of the uint32_t words
MAX_FRAMES_IN_FLIGHT == 2

(***************************************************************************)
(* Bounds of the model.                                                    *)
(***************************************************************************)
MaxPublishes == 2       \* publishes the producer performs in Spec
NumMeshes == 2          \* how many meshes of MeshCatalog a caller may pass
NumTransforms == 2      \* distinct transforms a cycle may compute
FairSequenceBits == 2   \* width of the sequence words in SpecFair
STAGING_RING_SIZE == 4  \* cells of the staging ring (8 MiB in the renderer)
MaxTransfers == 4       \* transfers the renderer issues in SpecRenderer
RingCellBytes == 48     \* bytes one cell of the model's staging ring stands for
MaxSnapshots == 3       \* snapshots stored in SpecApp
MaxOpens == 2           \* mapping handles the reader obtains in SpecReader

Min(a, b) == IF a < b THEN a ELSE b

RECURSIVE Pow2(_)
Pow2(n) == IF n = 0 THEN 1 ELSE 2 * Pow2(n - 1)

\* Unsigned arithmetic in a word of `bits` bits.  The values the model checker
\* represents stay below 2^31, so a 32-bit word never wraps within them.
Wrap(x, bits) == IF bits >= 31 THEN x ELSE x % Pow2(bits)

(***************************************************************************)
(* Producer inputs.  A mesh is what a caller passes to writeSharedGeometry:*)
(* a vector of Vertex and a vector of uint16_t.  One cell of `vertices`    *)
(* stands for one Vertex (SizeofVertex bytes), one cell of `indices` for   *)
(* one uint16_t; a cell's value identifies its content.  The first shape   *)
(* is geometry_writer's cube: 8 vertices, 36 indices.                      *)
(***************************************************************************)
MeshCatalog == << <<8, 36>>, <<3, 0>>, <<4, 6>>, <<1, 3>> >>

MeshOf(k) ==
    [vertices |-> [i \in 1..MeshCatalog[k][1] |-> 100 * k + i],
     indices  |-> [i \in 1..MeshCatalog[k][2] |-> 1000 * k + i]]

\* geometry_writer's own mesh (geometry_writer.cpp:132-152)
Cube == MeshOf(1)

MeshInputs == {MeshOf(k) : k \in 1..Min(NumMeshes, Len(MeshCatalog))}

TransformInputs == {[model |-> t, view |-> 10 + t, proj |-> 20 + t] : t \in 1..NumTransforms}

\* The cells of vertexData / indexData the model keeps: as many as the largest
\* mesh writes (the rest of the 4 MiB / 2 MiB arrays is never touched).
BufferVertices == CHOOSE n \in {MeshCatalog[k][1] : k \in DOMAIN MeshCatalog} :
                      \A k \in DOMAIN MeshCatalog : MeshCatalog[k][1] <= n
BufferIndices == CHOOSE n \in {MeshCatalog[k][2] : k \in DOMAIN MeshCatalog} :
                     \A k \in DOMAIN MeshCatalog : MeshCatalog[k][2] <= n

(***************************************************************************)
(* State.                                                                  *)
(***************************************************************************)
VARIABLES
    \* the shared region (SharedGeometryBuffer)
    sequence,               \* header.sequence
    consumerSequence,       \* header.consumerSequence
    hdr,                    \* the other header fields
    vertexData,             \* buffer->vertexData, in Vertex cells
    indexData,              \* buffer->indexData, in uint16_t cells
    \* the producer process (geometry_writer main + writeSharedGeometry)
    wpc,                    \* its position
    wSeq,                   \* writeSharedGeometry's local `seq`
    wIn,                    \* the arguments of the publish in progress
    geometryAcked,
    lastGeometrySequence,
    \* the consumer (SharedGeometryReader::tryRead and its locals)
    rpc,                    \* its position inside tryRead ("idle": not in a call)
    seq1,                   \* local seq1
    header,                 \* local copy of the header
    geometry,               \* local GeometryData under reconstruction
    outUpdate,              \* the caller's SharedGeometryUpdate
    lastSequence,           \* SharedGeometryReader::lastSequence
    rRet,                   \* what the last tryRead returned
    seqReload,              \* whether the build performs the second load of sequence
    \* history (observers; no action reads them to decide what to do)
    published,              \* completed publishes: sequence -> arguments
    delivered,              \* sequences tryRead returned true with geometry for
    callsSinceWrite,        \* tryRead calls begun since the producer last wrote (0..2)
    rQuiet,                 \* no producer write since the current/last call began
    rFresh,                 \* sequence # lastSequence when the call began
    rAfterStall,            \* the call began after the producer had stopped
    \* the renderer (VulkanRenderer): frame slots
    currentFrame,
    inFlightFences,         \* slot -> whether its fence is signaled
    commandBufferPending,   \* slot -> the GPU is still executing its submission
    dpc,                    \* position inside drawFrame ("idle": not in a call)
    \* the renderer: staging ring
    stagingRingOffset,
    pendingTransfers,       \* sequence of PendingTransfer, fence state included
    \* the renderer: active mesh and what is built from it
    mesh,                   \* GeometryData of the active mesh
    vertexBuffer,           \* 0 (VK_NULL_HANDLE) or the buffer's handle
    indexBuffer,
    graphicsPipeline,       \* <<>> (VK_NULL_HANDLE) or <<its vertex input state>>
    transformOverride,      \* <<>> (std::nullopt) or <<TransformData>>
    \* the application (main.cpp)
    mpc,                    \* position of main: "read", "mesh", "transform", "draw", "exited"
    mappingHandle,          \* reader.mappingHandle: 0 (nullptr) or the handle's number
    buffer,                 \* reader.buffer: 0 (nullptr) or the handle its view maps
    window,                 \* appWindow: width, height, fullscreen, windowedWidth, windowedHeight
    \* the operating system
    regionExists,           \* a file mapping with the reader's name exists
    clientArea,             \* size of the window's client area: width, height
    \* the renderer's uniform buffers
    uniformBuffersMapped,   \* slot -> the UniformBufferObject copied into it
    \* history of the application
    lastOpen,               \* <<>> or <<the last reader.open: its result, reader open before>>
    mappingsOpened,         \* handles OpenFileMappingW has returned so far
    \* history of the renderer
    pipelineOp,             \* what the last setMesh did to the pipeline
    meshThrew,              \* the last setMesh ended in a throw
    replacedMesh,           \* the mesh that was active before the last setMesh
    slotBuffers,            \* slot -> buffers bound by its recorded commands
    framesInFlight,         \* submissions not yet completed (capped)
    lastAcquire,            \* result of the last vkAcquireNextImageKHR
    ringThrew,              \* the last transfer call ended in stagingRingWrite's throw
    everSubmitted,          \* slot -> a frame was submitted on it
    ringOwner,              \* ring cell -> the transfer whose bytes it holds (0: none)
    transfersIssued,        \* number of transfers submitted so far
    lastWaited              \* transfers the last stagingRingWrite blocked on

sharedVars == <<sequence, consumerSequence, hdr, vertexData, indexData>>
writerVars == <<wpc, wSeq, wIn, geometryAcked, lastGeometrySequence>>
readerVars == <<rpc, seq1, header, geometry, outUpdate, lastSequence, rRet, seqReload>>
histVars == <<published, delivered, callsSinceWrite, rQuiet, rFresh, rAfterStall>>
channelVars == <<sharedVars, writerVars, readerVars, histVars>>
frameVars == <<currentFrame, inFlightFences, commandBufferPending, dpc, everSubmitted,
              slotBuffers, framesInFlight, lastAcquire, uniformBuffersMapped>>
ringVars == <<stagingRingOffset, pendingTransfers, ringOwner, transfersIssued, lastWaited,
             ringThrew>>
meshVars == <<mesh, vertexBuffer, indexBuffer, graphicsPipeline, transformOverride,
             pipelineOp, meshThrew, replacedMesh>>
connVars == <<mappingHandle, buffer, regionExists, lastOpen, mappingsOpened>>
windowVars == <<window, clientArea>>
mainVars == <<mpc, connVars, windowVars>>
rendererVars == <<frameVars, ringVars, meshVars, mainVars>>
vars == <<channelVars, rendererVars>>

(***************************************************************************)
(* Initial values.                                                         *)
(***************************************************************************)
ZeroAttribute == [location |-> 0, binding |-> 0, format |-> 0, offset |-> 0]
ZeroBinding == [binding |-> 0, stride |-> 0, inputRate |-> 0]

\* memset(buffer, 0, sizeof(SharedGeometryBuffer))
ZeroHeader ==
    [magic |-> 0, version |-> 0, hasGeometry |-> 0, hasTransform |-> 0,
     vertexStride |-> 0, vertexCount |-> 0, indexCount |-> 0, indexType |-> 0,
     topology |-> 0, attributeCount |-> 0,
     bindingDescription |-> ZeroBinding,
     attributes |-> [i \in 1..SharedGeometryMaxAttributes |-> ZeroAttribute],
     model |-> 0, view |-> 0, proj |-> 0]

\* GeometryData{} (mesh.hpp default member initializers)
DefaultGeometry ==
    [vertexData |-> <<>>, bindingDescription |-> ZeroBinding,
     attributeDescriptions |-> <<>>,
     topology |-> VK_PRIMITIVE_TOPOLOGY_TRIANGLE_LIST,
     indexData |-> <<>>, indexType |-> VK_INDEX_TYPE_UINT16,
     vertexCount |-> 0, indexCount |-> 0]

ZeroTransform == [model |-> 0, view |-> 0, proj |-> 0]

\* SharedGeometryUpdate update{}
DefaultUpdate ==
    [geometry |-> DefaultGeometry, transform |-> ZeroTransform,
     hasGeometry |-> FALSE, hasTransform |-> FALSE, sequence |-> 0]

NoInput == [vertices |-> <<>>, indices |-> <<>>, transform |-> ZeroTransform,
            writeGeometry |-> FALSE]

InitSeqlock ==
    /\ sequence = 0
    /\ consumerSequence = 0
    /\ hdr = ZeroHeader
    /\ vertexData = [i \in 1..BufferVertices |-> 0]
    /\ indexData = [i \in 1..BufferIndices |-> 0]
    /\ wpc = "loop"
    /\ wSeq = 0
    /\ wIn = NoInput
    /\ geometryAcked = FALSE
    /\ lastGeometrySequence = 0
    /\ rpc = "idle"
    /\ seq1 = 0
    /\ header = ZeroHeader
    /\ geometry = DefaultGeometry
    /\ outUpdate = DefaultUpdate
    /\ lastSequence = 0
    /\ rRet = FALSE
    /\ seqReload \in BOOLEAN
    /\ published = <<>>
    /\ delivered = {}
    /\ callsSinceWrite = 0
    /\ rQuiet = FALSE
    /\ rFresh = FALSE
    /\ rAfterStall = FALSE

(***************************************************************************)
(* The producer: writeSharedGeometry (geometry_writer.cpp:39-100) and the  *)
(* loop of main that calls it (geometry_writer.cpp:159-196).               *)
(***************************************************************************)

\* memcpy(dst, src, n * unit): the first n cells of dst are replaced.
Memcpy(dst, src, n) == [i \in DOMAIN dst |-> IF i <= n THEN src[i] ELSE dst[i]]

\* lines 50-53
EncodeFlags(h, writeGeometry) ==
    [h EXCEPT !.magic = SharedGeometryMagic,
              !.version = SharedGeometryVersion,
              !.hasGeometry = IF writeGeometry THEN 1 ELSE 0,
              !.hasTransform = 1]

\* lines 55-79 (the header part of the geometry branch) and 85-90
EncodeLayout(h, vertices, indices, writeGeometry) ==
    IF writeGeometry
    THEN [h EXCEPT
            !.vertexStride = SizeofVertex,
            !.vertexCount = Len(vertices),
            !.indexCount = Len(indices),
            !.indexType = VK_INDEX_TYPE_UINT16,
            !.topology = VK_PRIMITIVE_TOPOLOGY_TRIANGLE_LIST,
            !.attributeCount = 2,
            !.bindingDescription = [binding |-> 0, stride |-> SizeofVertex,
                                    inputRate |-> VK_VERTEX_INPUT_RATE_VERTEX],
            !.attributes[1] = [location |-> 0, binding |-> 0,
                               format |-> VK_FORMAT_R32G32B32_SFLOAT, offset |-> 0],
            !.attributes[2] = [location |-> 1, binding |-> 0,
                               format |-> VK_FORMAT_R32G32B32_SFLOAT,
                               offset |-> OffsetofColor]]
    ELSE [h EXCEPT !.vertexStride = 0, !.vertexCount = 0,
                   !.indexCount = 0, !.attributeCount = 0]

\* lines 93-95
EncodeTransform(h, transform) ==
    [h EXCEPT !.model = transform.model, !.view = transform.view, !.proj = transform.proj]

\* Mutant of AckObserved: an ordering test in place of the equality.
AckObserved_AtMost(consumerSeq, lastGeomSeq) == consumerSeq <= lastGeomSeq

\* line 188: geometryAcked = buffer->header.consumerSequence == lastGeometrySequence
AckObserved(consumerSeq, lastGeomSeq) == consumerSeq = lastGeomSeq

Put(f, k, v) == [x \in DOMAIN f \cup {k} |-> IF x = k THEN v ELSE f[x]]

\* A write of the producer to the shared region, as the history sees it.
ProducerWrote ==
    /\ callsSinceWrite' = 0
    /\ rQuiet' = FALSE
    /\ UNCHANGED <<rFresh, rAfterStall>>

WBegin_NoOdd(bits, limit, meshes) ==
    /\ wpc = "loop"
    /\ sequence < limit
    /\ \E cube \in meshes, transform \in TransformInputs :
         wIn' = [vertices |-> cube.vertices, indices |-> cube.indices,
                 transform |-> transform, writeGeometry |-> ~geometryAcked]
    /\ wSeq' = sequence
    /\ wpc' = "flags"
    /\ ProducerWrote
    /\ UNCHANGED <<sequence, consumerSequence, hdr, vertexData, indexData,
                   geometryAcked, lastGeometrySequence, readerVars,
                   published, delivered>>
    /\ UNCHANGED rendererVars

\* main, lines 162-192: one cycle computes a transform and calls
\* writeSharedGeometry with or without geometry; writeSharedGeometry, lines
\* 46-48: seq = sequence; sequence = seq + 1.  `bits` is the width of the
\* sequence word, `limit` the last sequence value a publish may start from,
\* `meshes` the vertices and indices the caller may pass.
WBegin(bits, limit, meshes) ==
    /\ wpc = "loop"
    /\ sequence < limit
    /\ \E cube \in meshes, transform \in TransformInputs :
         wIn' = [vertices |-> cube.vertices, indices |-> cube.indices,
                 transform |-> transform, writeGeometry |-> ~geometryAcked]
    /\ wSeq' = sequence
    /\ sequence' = Wrap(sequence + 1, bits)
    /\ wpc' = "flags"
    /\ ProducerWrote
    /\ UNCHANGED <<consumerSequence, hdr, vertexData, indexData,
                   geometryAcked, lastGeometrySequence, readerVars,
                   published, delivered>>
    /\ UNCHANGED rendererVars

\* lines 50-53
WFlags ==
    /\ wpc = "flags"
    /\ hdr' = EncodeFlags(hdr, wIn.writeGeometry)
    /\ wpc' = "layout"
    /\ ProducerWrote
    /\ UNCHANGED <<sequence, consumerSequence, vertexData, indexData,
                   wSeq, wIn, geometryAcked, lastGeometrySequence, readerVars,
                   published, delivered>>
    /\ UNCHANGED rendererVars

\* lines 55-79 or 85-90
WLayout ==
    /\ wpc = "layout"
    /\ hdr' = EncodeLayout(hdr, wIn.vertices, wIn.indices, wIn.writeGeometry)
    /\ wpc' = IF wIn.writeGeometry THEN "vertexData" ELSE "transform"
    /\ ProducerWrote
    /\ UNCHANGED <<sequence, consumerSequence, vertexData, indexData,
                   wSeq, wIn, geometryAcked, lastGeometrySequence, readerVars,
                   published, delivered>>
    /\ UNCHANGED rendererVars

\* line 82
WVertexData ==
    /\ wpc = "vertexData"
    /\ vertexData' = Memcpy(vertexData, wIn.vertices, Len(wIn.vertices))
    /\ wpc' = "indexData"
    /\ ProducerWrote
    /\ UNCHANGED <<sequence, consumerSequence, hdr, indexData,
                   wSeq, wIn, geometryAcked, lastGeometrySequence, readerVars,
                   published, delivered>>
    /\ UNCHANGED rendererVars

\* line 83
WIndexData ==
    /\ wpc = "indexData"
    /\ indexData' = Memcpy(indexData, wIn.indices, Len(wIn.indices))
    /\ wpc' = "transform"
    /\ ProducerWrote
    /\ UNCHANGED <<sequence, consumerSequence, hdr, vertexData,
                   wSeq, wIn, geometryAcked, lastGeometrySequence, readerVars,
                   published, delivered>>
    /\ UNCHANGED rendererVars

\* lines 93-95
WTransform ==
    /\ wpc = "transform"
    /\ hdr' = EncodeTransform(hdr, wIn.transform)
    /\ wpc' = "even"
    /\ ProducerWrote
    /\ UNCHANGED <<sequence, consumerSequence, vertexData, indexData,
                   wSeq, wIn, geometryAcked, lastGeometrySequence, readerVars,
                   published, delivered>>
    /\ UNCHANGED rendererVars

\* lines 98-99: sequence = seq + 2; back in main, line 185 or 191
WEnd(bits) ==
    /\ wpc = "even"
    /\ sequence' = Wrap(wSeq + 2, bits)
    /\ published' = Put(published, sequence', wIn)
    /\ wpc' = IF wIn.writeGeometry THEN "ack" ELSE "loop"
    /\ ProducerWrote
    /\ UNCHANGED <<consumerSequence, hdr, vertexData, indexData,
                   wSeq, wIn, geometryAcked, lastGeometrySequence, readerVars,
                   delivered>>
    /\ UNCHANGED rendererVars

\* main, lines 186-188 (reads only), then the sleep of line 195
WAck ==
    /\ wpc = "ack"
    /\ lastGeometrySequence' = sequence
    /\ geometryAcked' = AckObserved(consumerSequence, lastGeometrySequence')
    /\ wpc' = "loop"
    /\ UNCHANGED <<sharedVars, wSeq, wIn, readerVars, histVars>>
    /\ UNCHANGED rendererVars

\* The producer process stops for good inside a publish: after line 47 and
\* before line 99.
WStall ==
    /\ wpc \in {"flags", "layout", "vertexData", "indexData", "transform", "even"}
    /\ wpc' = "stalled"
    /\ UNCHANGED <<sharedVars, wSeq, wIn, geometryAcked, lastGeometrySequence,
                   readerVars, histVars>>
    /\ UNCHANGED rendererVars

Producer(bits, limit, meshes) ==
    \/ WBegin(bits, limit, meshes)
    \/ WFlags
    \/ WLayout
    \/ WVertexData
    \/ WIndexData
    \/ WTransform
    \/ WEnd(bits)
    \/ WAck

(***************************************************************************)
(* The consumer: SharedGeometryReader::tryRead (shared_geometry.cpp:85-208)*)
(* called by the render loop with a fresh SharedGeometryUpdate             *)
(* (main.cpp:59-60).                                                       *)
(***************************************************************************)

\* Mutant of IsOdd: the parity test looks at the wrong bit.
IsOdd_WrongBit(s) == (s \div 2) % 2 # 0

\* (seq & 1u) != 0, lines 94 and 103
IsOdd(s) == s % 2 # 0

\* Mutants of SeqRejected: one of the two tests of line 94 is missing.
SeqRejected_NoLast(s1, last) == IsOdd(s1)
SeqRejected_NoParity(s1, last) == s1 = last

\* line 94: seq1 == lastSequence || (seq1 & 1u) != 0
SeqRejected(s1, last) == s1 = last \/ IsOdd(s1)

\* line 103: seq1 != seq2 || (seq2 & 1u) != 0
Unstable(s1, s2) == s1 # s2 \/ IsOdd(s2)

\* Line 102 loads buffer->header.sequence a second time.  The object is a plain
\* uint32_t (no volatile, no atomic) and nothing between line 91 and line 102
\* orders or forbids merging the two loads, while the producer writes the word
\* concurrently: a data race.  A build either performs the second load or
\* reuses the value of the first.
SecondLoad(reload, mem, s1) == IF reload THEN mem ELSE s1

\* line 108
HeaderValid(h) == h.magic = SharedGeometryMagic /\ h.version = SharedGeometryVersion

\* Mutant of VertexBytes: the stride is left out of the byte count.
VertexBytes_NoStride(h) == h.vertexCount

\* line 128 (size_t arithmetic: the product of two uint32_t does not wrap)
VertexBytes(h) == h.vertexCount * h.vertexStride

\* line 136
IndexStride(indexType) ==
    IF indexType = VK_INDEX_TYPE_UINT32 THEN SizeofUint32 ELSE SizeofUint16

\* lines 134-141
IndexBytes(h) == IF h.indexCount > 0 THEN h.indexCount * IndexStride(h.indexType) ELSE 0

\* Mutant of GeometryValid: the index byte size has no upper limit.
GeometryValid_NoIndexLimit(h) ==
    /\ ~(h.attributeCount = 0 \/ h.attributeCount > SharedGeometryMaxAttributes)
    /\ ~(VertexBytes(h) = 0 \/ VertexBytes(h) > SharedGeometryMaxVertexBytes)

\* lines 123, 129, 138
GeometryValid(h) ==
    /\ ~(h.attributeCount = 0 \/ h.attributeCount > SharedGeometryMaxAttributes)
    /\ ~(VertexBytes(h) = 0 \/ VertexBytes(h) > SharedGeometryMaxVertexBytes)
    /\ ~(IndexBytes(h) > SharedGeometryMaxIndexBytes)

\* Mutant of Accepts: a snapshot with neither flag is an update.
Accepts_EmptyUpdate(h) ==
    /\ HeaderValid(h)
    /\ (h.hasGeometry # 0 => GeometryValid(h))

\* lines 107-141: every check that makes tryRead return false after the copy
Accepts(h) ==
    /\ HeaderValid(h)
    /\ ~(h.hasGeometry = 0 /\ h.hasTransform = 0)
    /\ (h.hasGeometry # 0 => GeometryValid(h))

\* lines 144-162, 167, 173: the GeometryData fields taken from the header
DecodeLayout(h) ==
    [DefaultGeometry EXCEPT
        !.bindingDescription = [binding |-> h.bindingDescription.binding,
                                stride |-> h.bindingDescription.stride,
                                inputRate |-> h.bindingDescription.inputRate],
        !.topology = h.topology,
        !.indexType = h.indexType,
        !.attributeDescriptions =
            [i \in 1..h.attributeCount |->
                [location |-> h.attributes[i].location,
                 binding |-> h.attributes[i].binding,
                 format |-> h.attributes[i].format,
                 offset |-> h.attributes[i].offset]],
        !.vertexCount = h.vertexCount,
        !.indexCount = IF IndexBytes(h) > 0 THEN h.indexCount ELSE 0]

\* lines 186-189
DecodeTransform(h) == [model |-> h.model, view |-> h.view, proj |-> h.proj]

\* resize(bytes) and memcpy(dst, src, bytes) of lines 165-166 and 171-172, for
\* an array kept in cells of `unit` bytes
CopyOut(src, bytes, unit) == [i \in 1..Min(bytes \div unit, Len(src)) |-> src[i]]

\* `const SharedGeometryHeader header = buffer->header;` (line 99) copies the
\* struct in three blocks, in the order of the fields
FlagFields == {"magic", "version", "hasGeometry", "hasTransform"}
LayoutFields == {"vertexStride", "vertexCount", "indexCount", "indexType", "topology",
                 "attributeCount", "bindingDescription", "attributes"}
TransformFields == {"model", "view", "proj"}

CopyFields(dst, src, fields) ==
    [f \in DOMAIN dst |-> IF f \in fields THEN src[f] ELSE dst[f]]

\* Mutant of ReturnFalse: a miss makes the call start over.
ReturnFalse_Retry ==
    /\ rpc' = "flags"
    /\ rRet' = FALSE
    /\ header' = ZeroHeader
    /\ geometry' = DefaultGeometry
    /\ UNCHANGED <<lastSequence, seqReload, delivered>>

\* tryRead returns false: its locals die, the reader and the caller's update
\* are as they were
ReturnFalse ==
    /\ rpc' = "idle"
    /\ rRet' = FALSE
    /\ header' = ZeroHeader
    /\ geometry' = DefaultGeometry
    /\ UNCHANGED <<lastSequence, seqReload, delivered>>

ReaderOpen_Always(buf) == TRUE

\* line 86: the reader has a mapped view
ReaderOpen(buf) == buf # 0

\* main.cpp:59-60 and tryRead lines 86-88 on a reader that is not open
RCallClosed ==
    /\ rpc = "idle"
    /\ ~ReaderOpen(buffer)
    /\ outUpdate' = DefaultUpdate
    /\ rRet' = FALSE
    /\ callsSinceWrite' = Min(callsSinceWrite + 1, 2)
    /\ rQuiet' = (wpc \in {"loop", "ack"})
    /\ rFresh' = (sequence # lastSequence)
    /\ rAfterStall' = (wpc = "stalled")
    /\ UNCHANGED <<sharedVars, writerVars, published, delivered, rpc, seq1, header,
                   geometry, lastSequence, seqReload>>
    /\ UNCHANGED rendererVars

\* main.cpp:59-60 and tryRead lines 86-96 (the reader is open)
RCall ==
    /\ rpc = "idle"
    /\ ReaderOpen(buffer)
    /\ seq1' = sequence
    /\ outUpdate' = DefaultUpdate
    /\ IF SeqRejected(seq1', lastSequence)
       THEN ReturnFalse
       ELSE /\ rpc' = "flags"
            /\ UNCHANGED <<rRet, header, geometry, lastSequence, seqReload, delivered>>
    /\ callsSinceWrite' = Min(callsSinceWrite + 1, 2)
    /\ rQuiet' = (wpc \in {"loop", "ack"})
    /\ rFresh' = (sequence # lastSequence)
    /\ rAfterStall' = (wpc = "stalled")
    /\ UNCHANGED <<sharedVars, writerVars, published>>
    /\ UNCHANGED rendererVars

\* line 99, first block
RFlags ==
    /\ rpc = "flags"
    /\ header' = CopyFields(header, hdr, FlagFields)
    /\ rpc' = "layout"
    /\ UNCHANGED <<sharedVars, writerVars, histVars, seq1, geometry, outUpdate,
                   lastSequence, rRet, seqReload>>
    /\ UNCHANGED rendererVars

\* line 99, second block
RLayout ==
    /\ rpc = "layout"
    /\ header' = CopyFields(header, hdr, LayoutFields)
    /\ rpc' = "transform"
    /\ UNCHANGED <<sharedVars, writerVars, histVars, seq1, geometry, outUpdate,
                   lastSequence, rRet, seqReload>>
    /\ UNCHANGED rendererVars

\* line 99, third block
RTransform ==
    /\ rpc = "transform"
    /\ header' = CopyFields(header, hdr, TransformFields)
    /\ rpc' = "check"
    /\ UNCHANGED <<sharedVars, writerVars, histVars, seq1, geometry, outUpdate,
                   lastSequence, rRet, seqReload>>
    /\ UNCHANGED rendererVars

RCheck_AckOnReject ==
    /\ rpc = "check"
    /\ LET seq2 == SecondLoad(seqReload, sequence, seq1) IN
       IF Unstable(seq1, seq2) \/ ~Accepts(header)
       THEN ReturnFalse /\ consumerSequence' = seq1
       ELSE /\ rpc' = IF header.hasGeometry # 0 THEN "vertexData" ELSE "finish"
            /\ geometry' = IF header.hasGeometry # 0 THEN DecodeLayout(header)
                                                     ELSE geometry
            /\ UNCHANGED <<rRet, header, lastSequence, seqReload, delivered,
                           consumerSequence>>
    /\ UNCHANGED <<sequence, hdr, vertexData, indexData, writerVars, seq1, outUpdate,
                   published, callsSinceWrite, rQuiet, rFresh, rAfterStall>>
    /\ UNCHANGED rendererVars

\* lines 102-162: the second load of sequence, the checks on the local copy and
\* the reconstruction of the layout
RCheck ==
    /\ rpc = "check"
    /\ LET seq2 == SecondLoad(seqReload, sequence, seq1) IN
       IF Unstable(seq1, seq2) \/ ~Accepts(header)
       THEN ReturnFalse
       ELSE /\ rpc' = IF header.hasGeometry # 0 THEN "vertexData" ELSE "finish"
            /\ geometry' = IF header.hasGeometry # 0 THEN DecodeLayout(header)
                                                     ELSE geometry
            /\ UNCHANGED <<rRet, header, lastSequence, seqReload, delivered>>
    /\ UNCHANGED <<sharedVars, writerVars, seq1, outUpdate,
                   published, callsSinceWrite, rQuiet, rFresh, rAfterStall>>
    /\ UNCHANGED rendererVars

\* lines 165-167
RVertexData ==
    /\ rpc = "vertexData"
    /\ geometry' = [geometry EXCEPT
                      !.vertexData = CopyOut(vertexData, VertexBytes(header), SizeofVertex)]
    /\ rpc' = IF IndexBytes(header) > 0 THEN "indexData" ELSE "finish"
    /\ UNCHANGED <<sharedVars, writerVars, histVars, seq1, header, outUpdate,
                   lastSequence, rRet, seqReload>>
    /\ UNCHANGED rendererVars

\* lines 170-174
RIndexData ==
    /\ rpc = "indexData"
    /\ geometry' = [geometry EXCEPT
                      !.indexData = CopyOut(indexData, IndexBytes(header), SizeofUint16)]
    /\ rpc' = "finish"
    /\ UNCHANGED <<sharedVars, writerVars, histVars, seq1, header, outUpdate,
                   lastSequence, rRet, seqReload>>
    /\ UNCHANGED rendererVars

\* Mutant of RFinish: the reader does not remember the sequence it delivered.
RFinish_NoLast ==
    /\ rpc = "finish"
    /\ outUpdate' =
         [geometry |-> IF header.hasGeometry # 0 THEN geometry ELSE outUpdate.geometry,
          hasGeometry |-> header.hasGeometry # 0,
          transform |-> IF header.hasTransform # 0 THEN DecodeTransform(header)
                                                   ELSE outUpdate.transform,
          hasTransform |-> header.hasTransform # 0,
          sequence |-> seq1]
    /\ lastSequence' = lastSequence
    /\ consumerSequence' = seq1
    /\ rRet' = TRUE
    /\ rpc' = "idle"
    /\ header' = ZeroHeader
    /\ geometry' = DefaultGeometry
    /\ delivered' = IF header.hasGeometry # 0 THEN delivered \cup {seq1} ELSE delivered
    /\ UNCHANGED <<sequence, hdr, vertexData, indexData, writerVars, seq1, seqReload,
                   published, callsSinceWrite, rQuiet, rFresh, rAfterStall>>
    /\ UNCHANGED rendererVars

\* lines 176-207: the update is handed to the caller, lastSequence and
\* consumerSequence are written, tryRead returns true
RFinish ==
    /\ rpc = "finish"
    /\ outUpdate' =
         [geometry |-> IF header.hasGeometry # 0 THEN geometry ELSE outUpdate.geometry,
          hasGeometry |-> header.hasGeometry # 0,
          transform |-> IF header.hasTransform # 0 THEN DecodeTransform(header)
                                                   ELSE outUpdate.transform,
          hasTransform |-> header.hasTransform # 0,
          sequence |-> seq1]
    /\ lastSequence' = seq1
    /\ consumerSequence' = seq1
    /\ rRet' = TRUE
    /\ rpc' = "idle"
    /\ header' = ZeroHeader
    /\ geometry' = DefaultGeometry
    /\ delivered' = IF header.hasGeometry # 0 THEN delivered \cup {seq1} ELSE delivered
    /\ UNCHANGED <<sequence, hdr, vertexData, indexData, writerVars, seq1, seqReload,
                   published, callsSinceWrite, rQuiet, rFresh, rAfterStall>>
    /\ UNCHANGED rendererVars

Consumer ==
    \/ RCall
    \/ RFlags
    \/ RLayout
    \/ RTransform
    \/ RCheck
    \/ RVertexData
    \/ RIndexData
    \/ RFinish

(***************************************************************************)
(* The reader's connection: SharedGeometryReader::open and close           *)
(* (shared_geometry.cpp:26-60), called by the thread that calls tryRead.   *)
(***************************************************************************)
OpenResult_Remap(handle, buf, exists, mapOk, opened) ==
    IF ~exists
    THEN [mappingHandle |-> 0, buffer |-> 0, ret |-> FALSE, opened |-> opened]
    ELSE [mappingHandle |-> opened + 1, buffer |-> opened + 1, ret |-> TRUE,
          opened |-> opened + 1]

\* open: the reader's members and the result, given whether a mapping of
\* that name exists and whether MapViewOfFile succeeds; `opened` counts the
\* handles OpenFileMappingW has returned
OpenResult(handle, buf, exists, mapOk, opened) ==
    IF buf # 0
    THEN [mappingHandle |-> handle, buffer |-> buf, ret |-> TRUE, opened |-> opened]
    ELSE IF ~exists
    THEN [mappingHandle |-> 0, buffer |-> 0, ret |-> FALSE, opened |-> opened]
    ELSE IF ~mapOk
    THEN [mappingHandle |-> 0, buffer |-> 0, ret |-> FALSE, opened |-> opened + 1]
    ELSE [mappingHandle |-> opened + 1, buffer |-> opened + 1, ret |-> TRUE,
          opened |-> opened + 1]

Open(mapOk) ==
    /\ rpc = "idle"
    /\ (buffer = 0 /\ regionExists) => mappingsOpened < MaxOpens
    /\ LET r == OpenResult(mappingHandle, buffer, regionExists, mapOk, mappingsOpened) IN
       /\ mappingHandle' = r.mappingHandle
       /\ buffer' = r.buffer
       /\ mappingsOpened' = r.opened
       /\ lastOpen' = <<[ret |-> r.ret, wasOpen |-> buffer # 0]>>
    /\ UNCHANGED <<regionExists, mpc, windowVars, channelVars, frameVars, ringVars,
                   meshVars>>

\* close: unmap the view, close the handle
Close ==
    /\ rpc = "idle"
    /\ buffer' = 0
    /\ mappingHandle' = 0
    /\ UNCHANGED <<regionExists, lastOpen, mappingsOpened, mpc, windowVars, channelVars,
                   frameVars, ringVars, meshVars>>

\* the producer process creates the mapping (geometry_writer.cpp:113); the
\* region starts zero-filled
WriterStarts ==
    /\ ~regionExists
    /\ regionExists' = TRUE
    /\ UNCHANGED <<mappingHandle, buffer, lastOpen, mappingsOpened, mpc, windowVars,
                   channelVars, frameVars, ringVars, meshVars>>

\* main.cpp:36: the reader as constructed, the producer not started yet
ReaderConstructed ==
    /\ regionExists = FALSE
    /\ mappingHandle = 0
    /\ buffer = 0
    /\ lastOpen = <<>>
    /\ mappingsOpened = 0

(***************************************************************************)
(* The renderer: frame slots (vulkan_renderer_commands.cpp).               *)
(***************************************************************************)
Slots == 0..(MAX_FRAMES_IN_FLIGHT - 1)

AcquireResults == {"VK_SUCCESS", "VK_SUBOPTIMAL_KHR", "VK_ERROR_OUT_OF_DATE_KHR"}
PresentResults == {"VK_SUCCESS", "VK_SUBOPTIMAL_KHR", "VK_ERROR_OUT_OF_DATE_KHR"}

\* the sizes a window's client area takes here: minimized, windowed, and
\* the primary monitor's video mode
ZeroArea == [width |-> 0, height |-> 0]
WindowedArea == [width |-> 3, height |-> 2]
MonitorMode == [width |-> 4, height |-> 3]

\* WindowCreator's constructor and initWindow (window_creator.cpp:16-74)
WindowCreated ==
    /\ window = [width |-> WindowedArea.width, height |-> WindowedArea.height,
                 fullscreen |-> FALSE,
                 windowedWidth |-> WindowedArea.width,
                 windowedHeight |-> WindowedArea.height]
    /\ clientArea = WindowedArea

\* main.cpp:36-37 when the producer has created the region: open succeeded
ReaderOpened ==
    /\ regionExists = TRUE
    /\ mappingHandle = 1
    /\ buffer = 1
    /\ lastOpen = <<[ret |-> TRUE, wasOpen |-> FALSE]>>
    /\ mappingsOpened = 1

\* createSyncObjects: the fences are created signaled; createStagingRing:
\* the cursor at 0 and no transfer pending.
InitRenderer ==
    /\ WindowCreated
    /\ uniformBuffersMapped = [k \in Slots |-> ZeroTransform]
    /\ currentFrame = 0
    /\ inFlightFences = [k \in Slots |-> TRUE]
    /\ commandBufferPending = [k \in Slots |-> FALSE]
    /\ dpc = "idle"
    /\ everSubmitted = [k \in Slots |-> FALSE]
    /\ slotBuffers = [k \in Slots |-> {}]
    /\ framesInFlight = 0
    /\ lastAcquire = "none"
    /\ ringThrew = FALSE
    /\ mesh = DefaultGeometry
    /\ vertexBuffer = 0
    /\ indexBuffer = 0
    /\ graphicsPipeline = <<>>
    /\ transformOverride = <<>>
    /\ pipelineOp = "none"
    /\ meshThrew = FALSE
    /\ replacedMesh = DefaultGeometry
    /\ mpc = "read"
    /\ stagingRingOffset = 0
    /\ pendingTransfers = <<>>
    /\ ringOwner = [b \in 0..(STAGING_RING_SIZE - 1) |-> 0]
    /\ transfersIssued = 0
    /\ lastWaited = {}

FenceWaitReturns_Timeout(fences, k) == TRUE

\* vkWaitForFences(.., VK_TRUE, UINT64_MAX) returns once the fence is signaled
FenceWaitReturns(fences, k) == fences[k]

\* every transfer's fence signaled (the transfer queue has drained)
AllSignaled(pending) == [i \in DOMAIN pending |-> [pending[i] EXCEPT !.signaled = TRUE]]

\* vkDeviceWaitIdle inside recreateSwapChain: every queue drains, so every
\* submission completes and signals its fence.
DeviceWaitIdle(fences, busy) == [k \in Slots |-> fences[k] \/ busy[k]]

\* createGraphicsPipeline: what the pipeline object is built from
PipelineFor(g) ==
    [bindingDescription |-> g.bindingDescription,
     attributeDescriptions |-> g.attributeDescriptions,
     topology |-> g.topology]

\* Mutant of RecreatedPipeline: the pipeline is built unconditionally.
RecreatedPipeline_Always(pipeline, g) == <<PipelineFor(g)>>

\* recreateSwapChain, lines 180-182, and recreateGraphicsPipeline
\* (vulkan_renderer_pipeline.cpp:89-99): an existing pipeline is destroyed and
\* built again from the active mesh
RecreatedPipeline(pipeline, g) ==
    IF pipeline # <<>> THEN <<PipelineFor(g)>> ELSE <<>>

\* recreateSwapChain once the window's dimensions are nonzero (lines 169-182)
RecreateSwapChain(busy) ==
    /\ inFlightFences' = DeviceWaitIdle(inFlightFences, busy)
    /\ commandBufferPending' = [k \in Slots |-> FALSE]
    /\ framesInFlight' = 0
    /\ pendingTransfers' = AllSignaled(pendingTransfers)
    /\ graphicsPipeline' = RecreatedPipeline(graphicsPipeline, mesh)

AcquireAborts_Never(result) == FALSE

\* line 183
AcquireAborts(result) == result = "VK_ERROR_OUT_OF_DATE_KHR"

PresentRecreates_Never(result) == FALSE

\* line 229 (framebufferResized is never set by the program)
PresentRecreates(result) == result \in {"VK_ERROR_OUT_OF_DATE_KHR", "VK_SUBOPTIMAL_KHR"}

\* Mutant of BoundBuffers: the draw is never indexed.
BoundBuffers_NeverIndexed(pipeline, g, vb, ib) ==
    IF pipeline # <<>> /\ g.vertexCount > 0 THEN {vb} ELSE {}

\* recordCommandBuffer: the buffers the recorded draw binds
BoundBuffers(pipeline, g, vb, ib) ==
    IF pipeline # <<>> /\ g.vertexCount > 0
    THEN {vb} \cup (IF g.indexCount > 0 THEN {ib} ELSE {})
    ELSE {}

\* updateUniformBuffer, lines 165-176: the rotation about Z by the elapsed
\* time with the cached view and projection; one value stands for the
\* matrices of every instant
DefaultAnimation == [model |-> 100, view |-> 110, proj |-> 120]

UpdateUniformBuffer_IgnoreOverride(override) == DefaultAnimation

\* updateUniformBuffer: the UniformBufferObject it assembles
UpdateUniformBuffer(override) ==
    IF override # <<>>
    THEN [model |-> override[1].model, view |-> override[1].view, proj |-> override[1].proj]
    ELSE DefaultAnimation

NextFrame_Stay(cur) == cur

\* line 237
NextFrame(cur) == (cur + 1) % MAX_FRAMES_IN_FLIGHT

\* Mutant of DrawAcquireCall: the slot's fence is reset before the result of
\* the acquisition is looked at.
DrawAcquireCall_ResetFirst(result) ==
    /\ dpc = "idle"
    /\ FenceWaitReturns(inFlightFences, currentFrame)
    /\ IF AcquireAborts(result)
       THEN /\ inFlightFences' =
                 [DeviceWaitIdle(inFlightFences, commandBufferPending)
                     EXCEPT ![currentFrame] = FALSE]
            /\ commandBufferPending' = [k \in Slots |-> FALSE]
            /\ framesInFlight' = 0
            /\ pendingTransfers' = AllSignaled(pendingTransfers)
            /\ graphicsPipeline' = RecreatedPipeline(graphicsPipeline, mesh)
            /\ UNCHANGED dpc
       ELSE /\ inFlightFences' = [inFlightFences EXCEPT ![currentFrame] = FALSE]
            /\ dpc' = "record"
            /\ UNCHANGED <<commandBufferPending, framesInFlight, pendingTransfers,
                           graphicsPipeline>>
    /\ lastAcquire' = result
    /\ UNCHANGED <<currentFrame, everSubmitted, slotBuffers, uniformBuffersMapped,
                   stagingRingOffset, ringOwner, transfersIssued, lastWaited, ringThrew>>
    /\ UNCHANGED <<mesh, vertexBuffer, indexBuffer, transformOverride, pipelineOp,
                   meshThrew, replacedMesh>>

\* drawFrame up to vkResetFences: wait for the slot's fence, acquire an image
\* (with the given result); an out-of-date swapchain is recreated and the call
\* returns.
DrawAcquireCall(result) ==
    /\ dpc = "idle"
    /\ FenceWaitReturns(inFlightFences, currentFrame)
    /\ IF AcquireAborts(result)
       THEN /\ RecreateSwapChain(commandBufferPending)
            /\ UNCHANGED dpc
       ELSE /\ inFlightFences' = [inFlightFences EXCEPT ![currentFrame] = FALSE]
            /\ dpc' = "record"
            /\ UNCHANGED <<commandBufferPending, framesInFlight, pendingTransfers,
                           graphicsPipeline>>
    /\ lastAcquire' = result
    /\ UNCHANGED <<currentFrame, everSubmitted, slotBuffers, uniformBuffersMapped,
                   stagingRingOffset, ringOwner, transfersIssued, lastWaited, ringThrew>>
    /\ UNCHANGED <<mesh, vertexBuffer, indexBuffer, transformOverride, pipelineOp,
                   meshThrew, replacedMesh>>

\* drawFrame called by a caller that does nothing else
DrawAcquire(result) == DrawAcquireCall(result) /\ UNCHANGED <<mainVars, channelVars>>

\* drawFrame from vkResetCommandBuffer on: the CPU resets and re-records the
\* slot's command buffer and rewrites its uniform buffer, submits with the
\* slot's fence, presents (with the given result), recreates the swapchain if
\* asked to, and advances.
DrawSubmitCall(result) ==
    /\ dpc = "record"
    /\ LET submitted == [commandBufferPending EXCEPT ![currentFrame] = TRUE] IN
       IF PresentRecreates(result)
       THEN RecreateSwapChain(submitted)
       ELSE /\ commandBufferPending' = submitted
            /\ framesInFlight' = Min(framesInFlight + 1, MAX_FRAMES_IN_FLIGHT + 1)
            /\ UNCHANGED <<inFlightFences, pendingTransfers, graphicsPipeline>>
    /\ slotBuffers' = [slotBuffers EXCEPT ![currentFrame] =
                          BoundBuffers(graphicsPipeline, mesh, vertexBuffer, indexBuffer)]
    /\ uniformBuffersMapped' = [uniformBuffersMapped EXCEPT ![currentFrame] =
                                    UpdateUniformBuffer(transformOverride)]
    /\ everSubmitted' = [everSubmitted EXCEPT ![currentFrame] = TRUE]
    /\ currentFrame' = NextFrame(currentFrame)
    /\ dpc' = "idle"
    /\ UNCHANGED <<lastAcquire, stagingRingOffset, ringOwner, transfersIssued,
                   lastWaited, ringThrew>>
    /\ UNCHANGED <<mesh, vertexBuffer, indexBuffer, transformOverride, pipelineOp,
                   meshThrew, replacedMesh>>

DrawSubmit(result) == DrawSubmitCall(result) /\ UNCHANGED <<mainVars, channelVars>>

\* the graphics queue finishes slot k's submission and signals its fence
GpuFrameComplete(k) ==
    /\ commandBufferPending[k]
    /\ commandBufferPending' = [commandBufferPending EXCEPT ![k] = FALSE]
    /\ framesInFlight' = framesInFlight - 1
    /\ inFlightFences' = [inFlightFences EXCEPT ![k] = TRUE]
    /\ UNCHANGED <<currentFrame, dpc, everSubmitted, slotBuffers, lastAcquire,
                   uniformBuffersMapped, ringVars>>
    /\ UNCHANGED <<meshVars, mainVars, channelVars>>

(***************************************************************************)
(* The window and the wait of recreateSwapChain (vulkan_renderer.cpp:      *)
(* 162-183, window_creator.cpp).  The window's thread changes the client   *)
(* area only while it dispatches messages, that is inside pollEvents; no   *)
(* GLFW callback is registered, so pollEvents stores nothing in the        *)
(* WindowCreator.                                                          *)
(***************************************************************************)
\* getDimensions (window_creator.cpp:97-99)
GetDimensions(w) == [width |-> w.width, height |-> w.height]

\* recreateSwapChain, line 164
ZeroDimensions(dims) == dims.width = 0 \/ dims.height = 0

\* the client area of a window that is not minimized
NormalArea(w) == IF w.fullscreen THEN MonitorMode ELSE WindowedArea

\* what the messages dispatched by one pollEvents can make of the client area
PolledAreas(w) == {ZeroArea, NormalArea(w)}

\* toggleFullscreen (window_creator.cpp:114-139); glfwGetWindowSize gives `area`
ToggleFullscreen(w, area) ==
    IF ~w.fullscreen
    THEN [width |-> MonitorMode.width, height |-> MonitorMode.height,
          fullscreen |-> TRUE,
          windowedWidth |-> area.width, windowedHeight |-> area.height]
    ELSE [w EXCEPT !.width = w.windowedWidth, !.height = w.windowedHeight,
                   !.fullscreen = FALSE]

\* glfwSetWindowMonitor inside toggleFullscreen: the client area afterwards
ToggledArea(w) ==
    IF ~w.fullscreen THEN MonitorMode
                     ELSE [width |-> w.windowedWidth, height |-> w.windowedHeight]

\* main.cpp:42-53: pollEvents, then toggleFullscreen on the rising edge of F11
MainPollEvents(area, f11) ==
    /\ dpc = "idle"
    /\ IF f11
       THEN /\ window' = ToggleFullscreen(window, area)
            /\ clientArea' = ToggledArea(window)
       ELSE /\ clientArea' = area
            /\ UNCHANGED window
    /\ UNCHANGED <<mpc, connVars, channelVars, frameVars, ringVars, meshVars>>

InPoll == dpc \in {"pollAcquire", "pollPresent"}

\* drawFrame up to vkResetFences; recreateSwapChain enters its loop when the
\* stored dimensions are zero
WindowDrawAcquire(result) ==
    IF AcquireAborts(result) /\ ZeroDimensions(GetDimensions(window))
    THEN /\ dpc = "idle"
         /\ FenceWaitReturns(inFlightFences, currentFrame)
         /\ dpc' = "pollAcquire"
         /\ lastAcquire' = result
         /\ UNCHANGED <<currentFrame, inFlightFences, commandBufferPending, everSubmitted,
                        slotBuffers, framesInFlight, uniformBuffersMapped>>
         /\ UNCHANGED <<ringVars, meshVars, mainVars, channelVars>>
    ELSE DrawAcquire(result)

\* the rest of drawFrame; recreateSwapChain enters its loop after the present
WindowDrawSubmit(result) ==
    IF PresentRecreates(result) /\ ZeroDimensions(GetDimensions(window))
    THEN /\ dpc = "record"
         /\ commandBufferPending' = [commandBufferPending EXCEPT ![currentFrame] = TRUE]
         /\ framesInFlight' = Min(framesInFlight + 1, MAX_FRAMES_IN_FLIGHT + 1)
         /\ slotBuffers' = [slotBuffers EXCEPT ![currentFrame] =
                               BoundBuffers(graphicsPipeline, mesh, vertexBuffer, indexBuffer)]
         /\ uniformBuffersMapped' = [uniformBuffersMapped EXCEPT ![currentFrame] =
                                         UpdateUniformBuffer(transformOverride)]
         /\ everSubmitted' = [everSubmitted EXCEPT ![currentFrame] = TRUE]
         /\ dpc' = "pollPresent"
         /\ UNCHANGED <<currentFrame, inFlightFences, lastAcquire>>
         /\ UNCHANGED <<ringVars, meshVars, mainVars, channelVars>>
    ELSE DrawSubmit(result)

\* one turn of the loop of lines 164-167: pollEvents, getDimensions, the
\* test; with nonzero dimensions the rest of recreateSwapChain and of
\* drawFrame follows
RecreatePoll(area) ==
    /\ InPoll
    /\ clientArea' = area
    /\ IF ZeroDimensions(GetDimensions(window))
       THEN UNCHANGED <<frameVars, pendingTransfers, graphicsPipeline>>
       ELSE /\ RecreateSwapChain(commandBufferPending)
            /\ dpc' = "idle"
            /\ currentFrame' = IF dpc = "pollPresent" THEN NextFrame(currentFrame)
                                                      ELSE currentFrame
            /\ UNCHANGED <<everSubmitted, slotBuffers, lastAcquire, uniformBuffersMapped>>
    /\ UNCHANGED <<stagingRingOffset, ringOwner, transfersIssued, lastWaited, ringThrew>>
    /\ UNCHANGED <<mesh, vertexBuffer, indexBuffer, transformOverride, pipelineOp,
                   meshThrew, replacedMesh>>
    /\ UNCHANGED <<window, mpc, connVars, channelVars>>

(***************************************************************************)
(* The renderer: staging ring (vulkan_renderer_buffers.cpp).               *)
(***************************************************************************)
TransferSizes == 1..(STAGING_RING_SIZE + 1)

FlushCompleted_DropAll(pending) == <<>>

\* flushCompletedTransfers: drop the transfers whose fence reads signaled
FlushCompleted(pending) ==
    LET Unsignaled(t) == ~t.signaled IN SelectSeq(pending, Unsignaled)

RingWrapped_AtEnd(offset, size) == offset + size >= STAGING_RING_SIZE

\* stagingRingWrite: whether the write has to restart at offset 0
RingWrapped(offset, size) == offset + size > STAGING_RING_SIZE

RingWriteOffset_NoWrap(offset, size) == offset

RingWriteOffset(offset, size) == IF RingWrapped(offset, size) THEN 0 ELSE offset

RingOverlaps_Strict(writeOffset, writeEnd, wrapped, offset, t) ==
    LET tStart == t.ringOffset
        tEnd == tStart + t.ringSize
        overlaps == (writeOffset < tStart) /\ (tStart < writeEnd)
    IN  IF wrapped /\ ~overlaps THEN tStart >= offset ELSE overlaps

\* stagingRingWrite: whether the write waits for pending transfer t
RingOverlaps(writeOffset, writeEnd, wrapped, offset, t) ==
    LET tStart == t.ringOffset
        tEnd == tStart + t.ringSize
        overlaps == (writeOffset < tEnd) /\ (tStart < writeEnd)
    IN  IF wrapped /\ ~overlaps THEN tStart >= offset ELSE overlaps

\* the transfers stagingRingWrite(size) waits for and erases
RingWaitedFor(pending, offset, size) ==
    LET writeOffset == RingWriteOffset(offset, size)
        Waited(t) == RingOverlaps(writeOffset, writeOffset + size,
                                  RingWrapped(offset, size), offset, t)
    IN  SelectSeq(pending, Waited)

\* the transfers stagingRingWrite(size) leaves in pendingTransfers
RingKept(pending, offset, size) ==
    LET writeOffset == RingWriteOffset(offset, size)
        Kept(t) == ~RingOverlaps(writeOffset, writeOffset + size,
                                 RingWrapped(offset, size), offset, t)
    IN  SelectSeq(pending, Kept)

\* std::memcpy(stagingRingMapped + writeOffset, data, size), data being the
\* bytes of transfer id
RingMemcpy(ring, writeOffset, size, id) ==
    [b \in DOMAIN ring |->
        IF writeOffset <= b /\ b < writeOffset + size THEN id ELSE ring[b]]

RingRejects_OffByOne(size) == size > STAGING_RING_SIZE + 1

\* line 210: the request stagingRingWrite throws on
RingRejects(size) == size > STAGING_RING_SIZE

\* the staging ring members as one value
RingState ==
    [offset |-> stagingRingOffset, pending |-> pendingTransfers, ring |-> ringOwner,
     issued |-> transfersIssued, waited |-> lastWaited]

\* transferToDeviceLocal(dstBuffer, data, size) for a size the ring accepts:
\* flush, write into the ring (waiting for the transfers in the way), submit
\* the copy with a fresh fence, remember it.
TransferResult(rs, dstBuffer, size) ==
    LET flushed == FlushCompleted(rs.pending)
        srcOffset == RingWriteOffset(rs.offset, size)
        waited == RingWaitedFor(flushed, rs.offset, size)
        id == rs.issued + 1
    IN  [offset |-> srcOffset + size,
         pending |-> Append(RingKept(flushed, rs.offset, size),
                            [fence |-> id, ringOffset |-> srcOffset, ringSize |-> size,
                             dstBuffer |-> dstBuffer, signaled |-> FALSE]),
         ring |-> RingMemcpy(rs.ring, srcOffset, size, id),
         issued |-> id,
         waited |-> {waited[i].fence : i \in DOMAIN waited}]

\* the staging ring members become those of rs
RingBecomes(rs) ==
    /\ stagingRingOffset' = rs.offset
    /\ pendingTransfers' = rs.pending
    /\ ringOwner' = rs.ring
    /\ transfersIssued' = rs.issued
    /\ lastWaited' = rs.waited
    /\ ringThrew' = FALSE

\* transferToDeviceLocal called with a destination that is none of the mesh
\* buffers (handle 0 here)
TransferToDeviceLocal(size) ==
    /\ dpc = "idle"
    /\ transfersIssued < MaxTransfers
    /\ ~RingRejects(size)
    /\ RingBecomes(TransferResult(RingState, 0, size))
    /\ UNCHANGED <<frameVars, meshVars, mainVars, channelVars>>

\* transferToDeviceLocal with a size stagingRingWrite throws on
TransferRejected(size) ==
    /\ dpc = "idle"
    /\ RingRejects(size)
    /\ pendingTransfers' = FlushCompleted(pendingTransfers)
    /\ lastWaited' = {}
    /\ ringThrew' = TRUE
    /\ UNCHANGED <<frameVars, stagingRingOffset, ringOwner, transfersIssued>>
    /\ UNCHANGED <<meshVars, mainVars, channelVars>>

FlushCompletedTransfers ==
    /\ dpc = "idle"
    /\ pendingTransfers' = FlushCompleted(pendingTransfers)
    /\ UNCHANGED <<frameVars, stagingRingOffset, ringOwner, transfersIssued, lastWaited,
                   ringThrew>>
    /\ UNCHANGED <<meshVars, mainVars, channelVars>>

\* waitAllTransfers: wait for every pending fence, then clear the list
WaitAllTransfersCall ==
    /\ dpc = "idle"
    /\ pendingTransfers' = <<>>
    /\ UNCHANGED <<frameVars, stagingRingOffset, ringOwner, transfersIssued, lastWaited,
                   ringThrew>>
    /\ UNCHANGED meshVars

WaitAllTransfers == WaitAllTransfersCall /\ UNCHANGED <<mainVars, channelVars>>

\* the transfer queue finishes the i-th pending copy and signals its fence
GpuTransferComplete(i) ==
    /\ ~pendingTransfers[i].signaled
    /\ pendingTransfers' = [pendingTransfers EXCEPT ![i].signaled = TRUE]
    /\ UNCHANGED <<frameVars, stagingRingOffset, ringOwner, transfersIssued, lastWaited,
                   ringThrew>>
    /\ UNCHANGED <<meshVars, mainVars, channelVars>>

Renderer ==
    \/ \E result \in AcquireResults : DrawAcquire(result)
    \/ \E result \in PresentResults : DrawSubmit(result)
    \/ \E size \in TransferSizes : TransferToDeviceLocal(size)
    \/ \E size \in TransferSizes : TransferRejected(size)
    \/ FlushCompletedTransfers
    \/ WaitAllTransfers

Gpu ==
    \/ \E k \in Slots : GpuFrameComplete(k)
    \/ \E i \in DOMAIN pendingTransfers : GpuTransferComplete(i)

(***************************************************************************)
(* The channel: both processes, the producer publishing at most            *)
(* MaxPublishes times and possibly stopping inside a publish.              *)
(***************************************************************************)
Init == InitSeqlock /\ InitRenderer /\ ReaderOpened

Next ==
    \/ Producer(Uint32Bits, 2 * MaxPublishes, MeshInputs)
    \/ WStall
    \/ Consumer

Spec == Init /\ [][Next]_vars

(***************************************************************************)
(* The channel with a reader that is opened and closed between its reads,  *)
(* and a producer that may start after the reader.                         *)
(***************************************************************************)
InitReader == InitSeqlock /\ seqReload /\ InitRenderer /\ ReaderConstructed

NextReader ==
    \/ WriterStarts
    \/ (regionExists /\ Producer(Uint32Bits, 2 * MaxPublishes, {Cube}))
    \/ \E mapOk \in BOOLEAN : Open(mapOk)
    \/ Close
    \/ RCallClosed
    \/ Consumer

SpecReader == InitReader /\ [][NextReader]_vars

(***************************************************************************)
(* The channel with a producer that never stops and a consumer that keeps  *)
(* polling, both scheduled by the operating system (weak fairness of each  *)
(* process).  The producer is geometry_writer's main, which passes its     *)
(* cube in every cycle.  The sequence words are FairSequenceBits wide, so  *)
(* that the endless run of publishes is a cycle of finitely many states;   *)
(* the consumer is a build that performs both loads of the sequence.       *)
(***************************************************************************)
FairProducer == Producer(FairSequenceBits, Pow2(FairSequenceBits), {Cube})

NextFair == FairProducer \/ Consumer

\* The builds that perform the second load of line 102.
InitFair == Init /\ seqReload

SpecFair ==
    /\ InitFair
    /\ [][NextFair]_vars
    /\ WF_vars(FairProducer)
    /\ WF_vars(Consumer)

(***************************************************************************)
(* The renderer on its own: the application thread calling drawFrame and   *)
(* the transfer functions in any order, the GPU completing submitted work  *)
(* in any order.  The channel is left closed.                              *)
(***************************************************************************)
NextRenderer == Renderer \/ Gpu

SpecRenderer == InitFair /\ [][NextRenderer]_vars

(***************************************************************************)
(* The render loop's window handling and drawFrame with the wait of        *)
(* recreateSwapChain.                                                      *)
(***************************************************************************)
NextWindow ==
    \/ \E area \in PolledAreas(window), f11 \in BOOLEAN : MainPollEvents(area, f11)
    \/ \E result \in AcquireResults : WindowDrawAcquire(result)
    \/ \E result \in PresentResults : WindowDrawSubmit(result)
    \/ \E area \in PolledAreas(window) : RecreatePoll(area)
    \/ \E k \in Slots : GpuFrameComplete(k)

\* the thread inside recreateSwapChain keeps running its loop
SpecWindow ==
    /\ InitFair
    /\ [][NextWindow]_vars
    /\ WF_vars(\E area \in PolledAreas(window) : RecreatePoll(area))

(***************************************************************************)
(* What a publish is expected to deliver.  The producer's in-memory        *)
(* geometry is a vector of Vertex with the layout of                       *)
(* Vertex::getBindingDescription / getAttributeDescriptions                *)
(* (mesh.hpp:34-61) and uint16_t indices.                                  *)
(***************************************************************************)
ExpectedGeometry(in) ==
    [vertexData |-> in.vertices,
     bindingDescription |-> [binding |-> 0, stride |-> SizeofVertex,
                             inputRate |-> VK_VERTEX_INPUT_RATE_VERTEX],
     attributeDescriptions |->
        << [location |-> 0, binding |-> 0, format |-> VK_FORMAT_R32G32B32_SFLOAT,
            offset |-> 0],
           [location |-> 1, binding |-> 0, format |-> VK_FORMAT_R32G32B32_SFLOAT,
            offset |-> OffsetofColor] >>,
     topology |-> VK_PRIMITIVE_TOPOLOGY_TRIANGLE_LIST,
     indexData |-> in.indices,
     indexType |-> VK_INDEX_TYPE_UINT16,
     vertexCount |-> Len(in.vertices),
     indexCount |-> Len(in.indices)]

ExpectedUpdate(in, seq) ==
    [geometry |-> IF in.writeGeometry THEN ExpectedGeometry(in) ELSE DefaultGeometry,
     hasGeometry |-> in.writeGeometry,
     transform |-> in.transform,
     hasTransform |-> TRUE,
     sequence |-> seq]

\* An update without the payload bytes: what tryRead derives from the header.
HeaderPart(u) == [u EXCEPT !.geometry.vertexData = <<>>, !.geometry.indexData = <<>>]

Returned == rpc = "idle" /\ rRet

Publishing == wpc \in {"flags", "layout", "vertexData", "indexData", "transform", "even"}

(***************************************************************************)
(* The renderer: the active mesh (vulkan_renderer_geometry.cpp).           *)
(* GeometryData::vertexData / indexData are byte vectors; the model keeps  *)
(* them in cells of SizeofVertex / SizeofUint16 bytes, as the channel does.*)
(***************************************************************************)
VertexDataSize(g) == Len(g.vertexData) * SizeofVertex

IndexDataSize(g) == Len(g.indexData) * SizeofUint16

\* Mutant of SetMeshRejects: the index data is not validated.
SetMeshRejects_NoIndexCheck(g) ==
    IF g.bindingDescription.stride = 0 THEN TRUE
    ELSE IF VertexDataSize(g) = 0 THEN TRUE
    ELSE VertexDataSize(g) % g.bindingDescription.stride # 0

\* setMesh, lines 75-95: the arguments it throws std::runtime_error on
SetMeshRejects(g) ==
    IF g.bindingDescription.stride = 0 THEN TRUE
    ELSE IF VertexDataSize(g) = 0 THEN TRUE
    ELSE IF VertexDataSize(g) % g.bindingDescription.stride # 0 THEN TRUE
    ELSE /\ IndexDataSize(g) # 0
         /\ IndexDataSize(g) % IndexStride(g.indexType) # 0

\* Mutant of Validated: the caller's counts are trusted.
Validated_KeepCounts(g) == g

\* setMesh, lines 73-96: the copy of the argument with both counts recomputed
\* from the byte sizes
Validated(g) ==
    [g EXCEPT !.vertexCount = VertexDataSize(g) \div g.bindingDescription.stride,
              !.indexCount = IF IndexDataSize(g) # 0
                             THEN IndexDataSize(g) \div IndexStride(g.indexType)
                             ELSE 0]

areBindingsEqual(a, b) ==
    a.binding = b.binding /\ a.stride = b.stride /\ a.inputRate = b.inputRate

\* Mutant of areAttributesEqual: only the number of attributes is compared.
areAttributesEqual_CountOnly(a, b) == Len(a) = Len(b)

areAttributesEqual(a, b) ==
    /\ Len(a) = Len(b)
    /\ \A i \in 1..Min(Len(a), Len(b)) :
          /\ a[i].binding = b[i].binding
          /\ a[i].location = b[i].location
          /\ a[i].format = b[i].format
          /\ a[i].offset = b[i].offset

\* isVertexLayoutDifferent(other), `current` being mesh.getData()
isVertexLayoutDifferent(current, other) ==
    \/ ~areBindingsEqual(current.bindingDescription, other.bindingDescription)
    \/ ~areAttributesEqual(current.attributeDescriptions, other.attributeDescriptions)

\* setMesh, line 98
RecreatePipeline(current, validated) ==
    isVertexLayoutDifferent(current, validated) \/ current.topology # validated.topology

\* Mutant of MeshWaitsFor: only the first slot's fence is waited for.
MeshWaitsFor_FirstSlot(fences) == FenceWaitReturns(fences, 0)

\* setMesh, lines 100-102: the loop over inFlightFences returns once every
\* slot's fence is signaled
MeshWaitsFor(fences) == \A k \in Slots : FenceWaitReturns(fences, k)

\* A cell of the model's staging ring stands for RingCellBytes bytes.
RingCells(bytes) == (bytes + RingCellBytes - 1) \div RingCellBytes

\* the transfers one setMesh(g) submits (createVertexBuffer, createIndexBuffer)
MeshTransfers(g) == IF Validated(g).indexCount > 0 THEN 2 ELSE 1

\* setMesh(g) for an argument that passes validation: wait for every frame
\* slot and for every pending transfer, destroy both buffers, install the
\* mesh, create or recreate or keep the pipeline, create the buffers and
\* submit their uploads.  A buffer's handle is the number of its upload.
SetMeshCall(g) ==
    /\ dpc = "idle"
    /\ ~SetMeshRejects(g)
    /\ MeshWaitsFor(inFlightFences)
    /\ transfersIssued + MeshTransfers(g) <= MaxTransfers
    /\ ~RingRejects(RingCells(VertexDataSize(g)))
    /\ ~RingRejects(RingCells(IndexDataSize(g)))
    /\ LET validated == Validated(g)
           recreatePipeline == RecreatePipeline(mesh, validated)
           drained == [RingState EXCEPT !.pending = <<>>]
           newVertexBuffer == drained.issued + 1
           afterVertex == TransferResult(drained, newVertexBuffer,
                                         RingCells(VertexDataSize(validated)))
           newIndexBuffer == IF validated.indexCount > 0 THEN afterVertex.issued + 1 ELSE 0
           afterIndex == IF validated.indexCount > 0
                         THEN TransferResult(afterVertex, newIndexBuffer,
                                             RingCells(IndexDataSize(validated)))
                         ELSE afterVertex
       IN  /\ replacedMesh' = mesh
           /\ mesh' = validated
           /\ graphicsPipeline' = IF graphicsPipeline = <<>> \/ recreatePipeline
                                  THEN <<PipelineFor(validated)>>
                                  ELSE graphicsPipeline
           /\ pipelineOp' = IF graphicsPipeline = <<>> THEN "created"
                            ELSE IF recreatePipeline THEN "recreated" ELSE "kept"
           /\ vertexBuffer' = newVertexBuffer
           /\ indexBuffer' = newIndexBuffer
           /\ RingBecomes(afterIndex)
    /\ meshThrew' = FALSE
    /\ UNCHANGED <<frameVars, transformOverride>>

\* setMesh(g) for an argument that fails validation: the throw of lines 76,
\* 79, 82 or 93 leaves the function before anything else ran
SetMeshThrowCall(g) ==
    /\ dpc = "idle"
    /\ SetMeshRejects(g)
    /\ meshThrew' = TRUE
    /\ UNCHANGED <<frameVars, ringVars, mesh, vertexBuffer, indexBuffer, graphicsPipeline,
                   transformOverride, pipelineOp, replacedMesh>>

\* the handle of a buffer createBuffer returned and no upload was submitted for
UnfilledBuffer(issued) == 0 - (issued + 1)

\* setMesh(g) for an argument that passes validation and whose vertex or index
\* data is larger than the staging ring: the waits, the destruction of both
\* buffers, the installation of the mesh and the pipeline work of lines 98-124
\* run as for any accepted mesh; createVertexBuffer or createIndexBuffer then
\* creates its buffer and stagingRingWrite throws (buffers.cpp:209-212) inside
\* transferToDeviceLocal, after its flush.
SetMeshOversizeCall(g) ==
    /\ dpc = "idle"
    /\ ~SetMeshRejects(g)
    /\ MeshWaitsFor(inFlightFences)
    /\ LET validated == Validated(g)
           vertexFits == ~RingRejects(RingCells(VertexDataSize(validated)))
           indexFits == validated.indexCount = 0
                           \/ ~RingRejects(RingCells(IndexDataSize(validated)))
           recreatePipeline == RecreatePipeline(mesh, validated)
           drained == [RingState EXCEPT !.pending = <<>>]
           afterVertex == IF vertexFits
                          THEN TransferResult(drained, drained.issued + 1,
                                              RingCells(VertexDataSize(validated)))
                          ELSE drained
       IN  /\ ~vertexFits \/ ~indexFits
           /\ vertexFits => transfersIssued + 1 <= MaxTransfers
           /\ replacedMesh' = mesh
           /\ mesh' = validated
           /\ graphicsPipeline' = IF graphicsPipeline = <<>> \/ recreatePipeline
                                  THEN <<PipelineFor(validated)>>
                                  ELSE graphicsPipeline
           /\ pipelineOp' = IF graphicsPipeline = <<>> THEN "created"
                            ELSE IF recreatePipeline THEN "recreated" ELSE "kept"
           /\ vertexBuffer' = IF vertexFits THEN afterVertex.issued
                                            ELSE UnfilledBuffer(drained.issued)
           /\ indexBuffer' = IF vertexFits THEN UnfilledBuffer(afterVertex.issued) ELSE 0
           /\ stagingRingOffset' = afterVertex.offset
           /\ pendingTransfers' = afterVertex.pending
           /\ ringOwner' = afterVertex.ring
           /\ transfersIssued' = afterVertex.issued
           /\ lastWaited' = {}
           /\ ringThrew' = TRUE
    /\ meshThrew' = TRUE
    /\ UNCHANGED <<frameVars, transformOverride>>

\* setTransform (vulkan_renderer_descriptors.cpp:128-130)
SetTransformCall(transform) ==
    /\ dpc = "idle"
    /\ transformOverride' = <<transform>>
    /\ UNCHANGED <<frameVars, ringVars, mesh, vertexBuffer, indexBuffer, graphicsPipeline,
                   pipelineOp, meshThrew, replacedMesh>>

\* clearTransformOverride (vulkan_renderer_descriptors.cpp:132-134)
ClearTransformOverrideCall ==
    /\ dpc = "idle"
    /\ transformOverride' = <<>>
    /\ UNCHANGED <<frameVars, ringVars, mesh, vertexBuffer, indexBuffer, graphicsPipeline,
                   pipelineOp, meshThrew, replacedMesh>>

(***************************************************************************)
(* Arguments of setMesh.  IndexedMesh and PlainMesh have the layout of     *)
(* Vertex and differ in their bytes; the others are IndexedMesh with one   *)
(* member changed.                                                         *)
(***************************************************************************)
IndexedMesh == ExpectedGeometry(MeshOf(4))

PlainMesh == ExpectedGeometry(MeshOf(2))

\* IndexedMesh handed over with counts that do not match its bytes
MiscountedMesh == [IndexedMesh EXCEPT !.vertexCount = 0, !.indexCount = 7]

\* one uint32_t index in two cells, and counts that do not match the bytes
WideIndexMesh ==
    [IndexedMesh EXCEPT !.indexType = VK_INDEX_TYPE_UINT32,
                        !.indexData = SubSeq(@, 1, 2),
                        !.vertexCount = 5, !.indexCount = 0]

WellFormedMeshes ==
    {IndexedMesh, PlainMesh, MiscountedMesh, WideIndexMesh,
     [IndexedMesh EXCEPT !.attributeDescriptions = SubSeq(@, 1, 1)],
     [IndexedMesh EXCEPT !.attributeDescriptions[2].format = 0],
     [IndexedMesh EXCEPT !.attributeDescriptions[2].offset = 0],
     [IndexedMesh EXCEPT !.topology = 0]}

MalformedMeshes ==
    {[IndexedMesh EXCEPT !.bindingDescription.stride = 0],
     [IndexedMesh EXCEPT !.vertexData = <<>>],
     [IndexedMesh EXCEPT !.bindingDescription.stride = 2 * SizeofVertex],
     [IndexedMesh EXCEPT !.indexType = VK_INDEX_TYPE_UINT32]}

SetMeshInputs == WellFormedMeshes \cup MalformedMeshes

(***************************************************************************)
(* The renderer driven through its public interface: a caller that calls   *)
(* setMesh (catching its exception) and drawFrame in any order, the GPU    *)
(* completing submitted work in any order.  The channel is left closed.    *)
(***************************************************************************)
SetMesh(g) == SetMeshCall(g) /\ UNCHANGED <<mainVars, channelVars>>

SetMeshThrows(g) == SetMeshThrowCall(g) /\ UNCHANGED <<mainVars, channelVars>>

NextMesh ==
    \/ \E g \in SetMeshInputs : SetMesh(g)
    \/ \E g \in SetMeshInputs : SetMeshThrows(g)
    \/ \E result \in AcquireResults : DrawAcquire(result)
    \/ \E result \in PresentResults : DrawSubmit(result)
    \/ Gpu

SpecMesh == InitFair /\ [][NextMesh]_vars

(***************************************************************************)
(* The renderer in front of meshes the staging ring cannot take: a caller  *)
(* that catches setMesh's exception and goes on calling setMesh and        *)
(* drawFrame.  OversizeVertexMesh has one Vertex more than the ring holds, *)
(* OversizeIndexMesh one index more.                                       *)
(***************************************************************************)
RingBytes == STAGING_RING_SIZE * RingCellBytes

OversizeVertexMesh ==
    ExpectedGeometry([vertices |-> [i \in 1..(RingBytes \div SizeofVertex + 1) |-> 500 + i],
                      indices |-> <<>>])

OversizeIndexMesh ==
    ExpectedGeometry([vertices |-> <<601>>,
                      indices |-> [i \in 1..(RingBytes \div SizeofUint16 + 1) |-> 6000 + i]])

OversizeMeshes == {OversizeVertexMesh, OversizeIndexMesh}

SetMeshOversize(g) == SetMeshOversizeCall(g) /\ UNCHANGED <<mainVars, channelVars>>

NextCapacity ==
    \/ SetMesh(IndexedMesh)
    \/ \E g \in OversizeMeshes : SetMeshOversize(g)
    \/ \E result \in AcquireResults : DrawAcquire(result)
    \/ \E result \in PresentResults : DrawSubmit(result)
    \/ Gpu

SpecCapacity == InitFair /\ [][NextCapacity]_vars

(***************************************************************************)
(* The renderer's blocking calls, one step for the call and one for its    *)
(* return.  A thread calls setMesh, drawFrame and waitAllTransfers (the    *)
(* drain of destroyStagingRing) in any order; mpc tells which call it is   *)
(* in ("read": none).  A call returns once its waits are over: drawFrame   *)
(* waits for its slot's fence, setMesh for every slot's fence and then,    *)
(* like waitAllTransfers, for the fence of every pending transfer.  The    *)
(* GPU completes every submission it was given, and the thread runs        *)
(* whenever it is not waiting.                                             *)
(***************************************************************************)
\* Mutant of DrainReturns: only the first pending fence is waited for.
DrainReturns_FirstOnly(pending) == IF pending = <<>> THEN TRUE ELSE pending[1].signaled

\* waitAllTransfers, lines 192-196: the loop gets past the vkWaitForFences of
\* every pending transfer
DrainReturns(pending) == \A i \in DOMAIN pending : pending[i].signaled

CallableMeshes == {IndexedMesh, PlainMesh}

\* the thread enters one of the three calls
CallerCalls(call) ==
    /\ mpc = "read"
    /\ dpc = "idle"
    /\ call = "mesh" => \A g \in CallableMeshes :
                            transfersIssued + MeshTransfers(g) <= MaxTransfers
    /\ mpc' = call
    /\ UNCHANGED <<connVars, windowVars, channelVars, frameVars, ringVars, meshVars>>

\* drawFrame up to its first return or to the recording
CallerDrawAcquire(result) ==
    /\ mpc = "draw"
    /\ DrawAcquireCall(result)
    /\ mpc' = IF AcquireAborts(result) THEN "read" ELSE "draw"
    /\ UNCHANGED <<connVars, windowVars, channelVars>>

\* the rest of drawFrame
CallerDrawSubmit(result) ==
    /\ mpc = "draw"
    /\ DrawSubmitCall(result)
    /\ mpc' = "read"
    /\ UNCHANGED <<connVars, windowVars, channelVars>>

\* setMesh(g) once its waits are over
CallerSetMesh(g) ==
    /\ mpc = "mesh"
    /\ DrainReturns(pendingTransfers)
    /\ SetMeshCall(g)
    /\ mpc' = "read"
    /\ UNCHANGED <<connVars, windowVars, channelVars>>

\* waitAllTransfers once its waits are over
CallerWaitAllTransfers ==
    /\ mpc = "drain"
    /\ DrainReturns(pendingTransfers)
    /\ WaitAllTransfersCall
    /\ mpc' = "read"
    /\ UNCHANGED <<connVars, windowVars, channelVars>>

Caller ==
    \/ \E call \in {"mesh", "draw", "drain"} : CallerCalls(call)
    \/ \E result \in AcquireResults : CallerDrawAcquire(result)
    \/ \E result \in PresentResults : CallerDrawSubmit(result)
    \/ \E g \in CallableMeshes : CallerSetMesh(g)
    \/ CallerWaitAllTransfers

NextCalls == Caller \/ Gpu

SpecCalls ==
    /\ InitFair
    /\ [][NextCalls]_vars
    /\ WF_vars(\E result \in AcquireResults : CallerDrawAcquire(result))
    /\ WF_vars(\E result \in PresentResults : CallerDrawSubmit(result))
    /\ WF_vars(\E g \in CallableMeshes : CallerSetMesh(g))
    /\ WF_vars(CallerWaitAllTransfers)
    /\ \A k \in Slots : WF_vars(GpuFrameComplete(k))
    /\ \A i \in 1..MaxTransfers : WF_vars(i \in DOMAIN pendingTransfers /\ GpuTransferComplete(i))

(***************************************************************************)
(* The renderer driven through setTransform, clearTransformOverride,       *)
(* drawFrame and one setMesh.                                              *)
(***************************************************************************)
SetTransform(transform) ==
    SetTransformCall(transform) /\ UNCHANGED <<mainVars, channelVars>>

ClearTransformOverride ==
    ClearTransformOverrideCall /\ UNCHANGED <<mainVars, channelVars>>

NextTransform ==
    \/ \E transform \in TransformInputs : SetTransform(transform)
    \/ ClearTransformOverride
    \/ SetMesh(IndexedMesh)
    \/ \E result \in AcquireResults : DrawAcquire(result)
    \/ \E result \in PresentResults : DrawSubmit(result)
    \/ Gpu

SpecTransform == InitFair /\ [][NextTransform]_vars

(***************************************************************************)
(* The reader in front of a stable snapshot it did not write the rules of: *)
(* the shared region holds an even, new sequence word and a header whose   *)
(* fields any process with the mapping may have stored; no writer is       *)
(* active.  The payload arrays hold the bytes of IndexedMesh.              *)
(***************************************************************************)
SnapshotHeaders ==
    LET base == EncodeTransform(
                    EncodeLayout(EncodeFlags(ZeroHeader, TRUE),
                                 MeshOf(4).vertices, MeshOf(4).indices, TRUE),
                    [model |-> 1, view |-> 11, proj |-> 21])
    IN  {[base EXCEPT !.magic = magic, !.version = version,
                      !.hasGeometry = flags[1], !.hasTransform = flags[2],
                      !.attributeCount = attributeCount,
                      !.vertexStride = vertexStride, !.vertexCount = vertexCount,
                      !.indexCount = indexCount, !.indexType = indexType,
                      !.bindingDescription.stride = stride] :
            magic \in {SharedGeometryMagic, 0},
            version \in {SharedGeometryVersion, SharedGeometryVersion + 1},
            flags \in {0, 1} \X {0, 1},
            attributeCount \in {0, 1, 2, SharedGeometryMaxAttributes,
                                SharedGeometryMaxAttributes + 1},
            vertexStride \in {0, SizeofVertex},
            vertexCount \in {0, 1, SharedGeometryMaxVertexBytes \div SizeofVertex + 1},
            indexCount \in {0, 3, SharedGeometryMaxIndexBytes \div SizeofUint16 + 1},
            indexType \in {VK_INDEX_TYPE_UINT16, VK_INDEX_TYPE_UINT32},
            stride \in {0, SizeofVertex}}

InitSnapshot ==
    /\ sequence = 2
    /\ consumerSequence = 0
    /\ hdr \in SnapshotHeaders
    /\ vertexData = Memcpy([i \in 1..BufferVertices |-> 0], MeshOf(4).vertices,
                           Len(MeshOf(4).vertices))
    /\ indexData = Memcpy([i \in 1..BufferIndices |-> 0], MeshOf(4).indices,
                          Len(MeshOf(4).indices))
    /\ wpc = "loop"
    /\ wSeq = 0
    /\ wIn = NoInput
    /\ geometryAcked = FALSE
    /\ lastGeometrySequence = 0
    /\ rpc = "idle"
    /\ seq1 = 0
    /\ header = ZeroHeader
    /\ geometry = DefaultGeometry
    /\ outUpdate = DefaultUpdate
    /\ lastSequence = 0
    /\ rRet = FALSE
    /\ seqReload \in BOOLEAN
    /\ published = <<>>
    /\ delivered = {}
    /\ callsSinceWrite = 0
    /\ rQuiet = FALSE
    /\ rFresh = FALSE
    /\ rAfterStall = FALSE
    /\ InitRenderer
    /\ ReaderOpened

SpecSnapshot == InitSnapshot /\ [][Consumer]_vars

(***************************************************************************)
(* The application (main.cpp:39-82) in front of complete snapshots.  Some  *)
(* process with the mapping stores a whole snapshot at a time: the payload,*)
(* the header and an even sequence word two higher than the last.  A       *)
(* snapshot is built the way writeSharedGeometry builds it, on top of the  *)
(* header in place, and may then deviate from it in its magic, in          *)
(* hasTransform or in bindingDescription.stride.  main reads, applies and  *)
(* draws in turn; an exception ends it (main.cpp:88-91).                   *)
(***************************************************************************)
SnapshotsOver(h) ==
    {[header |-> EncodeTransform(EncodeLayout(EncodeFlags(h, TRUE), MeshOf(4).vertices,
                                              MeshOf(4).indices, TRUE),
                                 [model |-> 1, view |-> 11, proj |-> 21]),
      vertices |-> MeshOf(4).vertices, indices |-> MeshOf(4).indices]}
    \cup
    {[header |-> EncodeTransform(EncodeLayout(EncodeFlags(h, FALSE), <<>>, <<>>, FALSE),
                                 transform),
      vertices |-> <<>>, indices |-> <<>>] : transform \in TransformInputs}
    \cup
    {[header |-> [EncodeLayout(EncodeFlags(h, TRUE), MeshOf(4).vertices,
                               MeshOf(4).indices, TRUE)
                     EXCEPT !.bindingDescription.stride = stride],
      vertices |-> MeshOf(4).vertices, indices |-> MeshOf(4).indices] :
        stride \in {0, 2 * SizeofVertex}}
    \cup
    {[header |-> [EncodeLayout(EncodeFlags(h, TRUE), MeshOf(2).vertices,
                               MeshOf(2).indices, TRUE)
                     EXCEPT !.hasTransform = 0],
      vertices |-> MeshOf(2).vertices, indices |-> MeshOf(2).indices],
     [header |-> [EncodeFlags(h, FALSE) EXCEPT !.magic = 0],
      vertices |-> <<>>, indices |-> <<>>]}

\* The store of a snapshot.  main looks at the shared region only inside
\* tryRead, so a store during any other step of main has the effect of the
\* same store just before the next tryRead: it is taken there.
PublishSnapshot(snapshot) ==
    /\ mpc = "read"
    /\ sequence < 2 * MaxSnapshots
    /\ sequence' = sequence + 2
    /\ hdr' = snapshot.header
    /\ vertexData' = Memcpy(vertexData, snapshot.vertices, Len(snapshot.vertices))
    /\ indexData' = Memcpy(indexData, snapshot.indices, Len(snapshot.indices))
    /\ UNCHANGED <<consumerSequence, writerVars, readerVars, histVars>>
    /\ UNCHANGED rendererVars

\* tryRead in front of a snapshot that does not change during the call: both
\* loads of the sequence give seq
TryReadAccepts(seq, last, h) == ~SeqRejected(seq, last) /\ ~Unstable(seq, seq) /\ Accepts(h)

\* the update such a call hands to its caller (lines 144-195), the caller
\* having passed SharedGeometryUpdate{}
TryReadUpdate(seq, h, vdata, idata) ==
    [geometry |-> IF h.hasGeometry # 0
                  THEN [DecodeLayout(h) EXCEPT
                          !.vertexData = CopyOut(vdata, VertexBytes(h), SizeofVertex),
                          !.indexData = IF IndexBytes(h) > 0
                                        THEN CopyOut(idata, IndexBytes(h), SizeofUint16)
                                        ELSE <<>>]
                  ELSE DefaultGeometry,
     hasGeometry |-> h.hasGeometry # 0,
     transform |-> IF h.hasTransform # 0 THEN DecodeTransform(h) ELSE ZeroTransform,
     hasTransform |-> h.hasTransform # 0,
     sequence |-> seq]

MainInstallsMesh_Always(update) == TRUE

\* main.cpp:64
MainInstallsMesh(update) == update.hasGeometry

\* main.cpp:59-64: a fresh update, the call of tryRead and the branches on its
\* result
MainTryRead ==
    /\ mpc = "read"
    /\ rpc = "idle"
    /\ seq1' = sequence
    /\ IF TryReadAccepts(sequence, lastSequence, hdr)
       THEN /\ outUpdate' = TryReadUpdate(sequence, hdr, vertexData, indexData)
            /\ lastSequence' = sequence
            /\ consumerSequence' = sequence
            /\ rRet' = TRUE
            /\ delivered' = IF hdr.hasGeometry # 0 THEN delivered \cup {sequence}
                                                   ELSE delivered
            /\ published' = IF hdr.hasGeometry # 0
                             THEN Put(published, sequence,
                                      [header |-> hdr, vertices |-> vertexData,
                                       indices |-> indexData])
                             ELSE published
            /\ mpc' = IF MainInstallsMesh(outUpdate') THEN "mesh" ELSE "transform"
       ELSE /\ outUpdate' = DefaultUpdate
            /\ rRet' = FALSE
            /\ mpc' = "draw"
            /\ UNCHANGED <<lastSequence, consumerSequence, delivered, published>>
    /\ UNCHANGED <<sequence, hdr, vertexData, indexData, writerVars, rpc, header, geometry,
                   seqReload, callsSinceWrite, rQuiet, rFresh, rAfterStall>>
    /\ UNCHANGED <<frameVars, ringVars, meshVars, connVars, windowVars>>

\* main.cpp:64-67 with a geometry setMesh accepts
MainSetMesh ==
    /\ mpc = "mesh"
    /\ SetMeshCall(outUpdate.geometry)
    /\ mpc' = "transform"
    /\ UNCHANGED <<connVars, windowVars, channelVars>>

\* main.cpp:64-67 with a geometry setMesh throws on: the exception leaves the
\* loop and the try block, main returns EXIT_FAILURE (lines 88-91)
MainSetMeshThrows ==
    /\ mpc = "mesh"
    /\ SetMeshThrowCall(outUpdate.geometry)
    /\ mpc' = "exited"
    /\ UNCHANGED <<connVars, windowVars, channelVars>>

\* main.cpp:71-76
MainSetTransform ==
    /\ mpc = "transform"
    /\ IF outUpdate.hasTransform
       THEN SetTransformCall(outUpdate.transform)
       ELSE ClearTransformOverrideCall
    /\ mpc' = "draw"
    /\ UNCHANGED <<connVars, windowVars, channelVars>>

\* main.cpp:81, drawFrame up to its first return or to the recording
MainDrawAcquire(result) ==
    /\ mpc = "draw"
    /\ DrawAcquireCall(result)
    /\ mpc' = IF AcquireAborts(result) THEN "read" ELSE "draw"
    /\ UNCHANGED <<connVars, windowVars, channelVars>>

\* main.cpp:81, the rest of drawFrame
MainDrawSubmit(result) ==
    /\ mpc = "draw"
    /\ DrawSubmitCall(result)
    /\ mpc' = "read"
    /\ UNCHANGED <<connVars, windowVars, channelVars>>

Main ==
    \/ MainTryRead
    \/ MainSetMesh
    \/ MainSetMeshThrows
    \/ MainSetTransform
    \/ \E result \in AcquireResults : MainDrawAcquire(result)
    \/ \E result \in PresentResults : MainDrawSubmit(result)

NextApp ==
    \/ \E snapshot \in SnapshotsOver(hdr) : PublishSnapshot(snapshot)
    \/ Main
    \/ Gpu

SpecApp == InitFair /\ [][NextApp]_vars

(***************************************************************************)
(* The application in front of snapshots setMesh accepts: geometry with a  *)
(* transform, geometry alone, a transform alone, and a snapshot with       *)
(* neither flag.  setMesh never throws here.                               *)
(***************************************************************************)
LoopTransform == [model |-> 1, view |-> 11, proj |-> 21]

LoopSnapshots(h) ==
    LET withGeometry == EncodeLayout(EncodeFlags(h, TRUE), MeshOf(4).vertices,
                                     MeshOf(4).indices, TRUE)
        withoutGeometry == EncodeLayout(EncodeFlags(h, FALSE), <<>>, <<>>, FALSE)
    IN  {[header |-> EncodeTransform(withGeometry, LoopTransform),
          vertices |-> MeshOf(4).vertices, indices |-> MeshOf(4).indices],
         [header |-> [withGeometry EXCEPT !.hasTransform = 0],
          vertices |-> MeshOf(4).vertices, indices |-> MeshOf(4).indices],
         [header |-> EncodeTransform(withoutGeometry, LoopTransform),
          vertices |-> <<>>, indices |-> <<>>],
         [header |-> [withoutGeometry EXCEPT !.hasTransform = 0],
          vertices |-> <<>>, indices |-> <<>>]}

NextLoop ==
    \/ \E snapshot \in LoopSnapshots(hdr) : PublishSnapshot(snapshot)
    \/ MainTryRead
    \/ MainSetMesh
    \/ MainSetTransform
    \/ \E result \in AcquireResults : MainDrawAcquire(result)
    \/ \E result \in PresentResults : MainDrawSubmit(result)
    \/ Gpu

SpecLoop == InitFair /\ [][NextLoop]_vars

(***************************************************************************)
(* C1.  A tryRead that returns true never returns a torn header: every     *)
(* header-derived field of the update it returns was written by the one    *)
(* completed publish whose sequence it returns.                            *)
(***************************************************************************)
C1_NoTornHeader ==
    Returned =>
        /\ outUpdate.sequence \in DOMAIN published
        /\ HeaderPart(outUpdate) =
             HeaderPart(ExpectedUpdate(published[outUpdate.sequence], outUpdate.sequence))

\* The same statement for the builds that perform the second load of line 102:
\* there the double read does protect the header.
HeaderIntactWhenReloaded == seqReload => C1_NoTornHeader

(***************************************************************************)
(* C2.  A tryRead that returns true with geometry returns the vertex and   *)
(* index bytes of the same completed publish whose header it returns, not  *)
(* a mix of the bytes of two publishes.                                    *)
(***************************************************************************)
C2_NoTornPayload ==
    (Returned /\ outUpdate.hasGeometry) =>
        /\ outUpdate.sequence \in DOMAIN published
        /\ outUpdate.geometry.vertexData = published[outUpdate.sequence].vertices
        /\ outUpdate.geometry.indexData = published[outUpdate.sequence].indices

\* The same statement for the builds that perform the second load: the payload
\* is copied after the check and is torn there too.
PayloadIntactWhenReloaded == seqReload => C2_NoTornPayload

(***************************************************************************)
(* C3.  Staging ring safety: whatever the calls and whatever the order in  *)
(* which the transfer fences signal, stagingRingWrite never copies into a  *)
(* range that intersects the ring range of a transfer still present in     *)
(* pendingTransfers: every cell of such a range still holds the bytes that *)
(* transfer's own write put there.                                         *)
(***************************************************************************)
RingRange(t) == t.ringOffset..(t.ringOffset + t.ringSize - 1)

C3_PendingRangesIntact ==
    \A i \in DOMAIN pendingTransfers :
        \A b \in RingRange(pendingTransfers[i]) :
            ringOwner[b] = pendingTransfers[i].fence

\* a write that wrapped to offset 0 had to wait for an unfinished transfer,
\* and left another unfinished transfer alone
C3_Witness ==
    /\ Len(pendingTransfers) >= 2
    /\ pendingTransfers[Len(pendingTransfers)].ringOffset = 0
    /\ lastWaited # {}
    /\ \A i \in DOMAIN pendingTransfers : ~pendingTransfers[i].signaled
    /\ \E b \in DOMAIN ringOwner : ringOwner[b] \in lastWaited

(***************************************************************************)
(* C4.  Frame-slot reuse safety: whenever drawFrame is about to reset and  *)
(* re-record the current slot's command buffer and rewrite its uniform     *)
(* buffer, the GPU has finished the slot's previous submission.            *)
(***************************************************************************)
C4_SlotReuseAfterFence == dpc = "record" => ~commandBufferPending[currentFrame]

\* a slot is being reused while the other slot's frame is still in flight
C4_Witness ==
    /\ dpc = "record"
    /\ everSubmitted[currentFrame]
    /\ \E k \in Slots : k # currentFrame /\ commandBufferPending[k]

(***************************************************************************)
(* C5.  Idempotence: of two tryRead calls with no write of the producer    *)
(* from the start of the first to the end of the second, the second        *)
(* returns false, whatever the first returned.                             *)
(***************************************************************************)
C5_SecondReadReturnsFalse == (rpc = "idle" /\ callsSinceWrite = 2) => ~rRet

\* The first call consumed the publish, the second found nothing new.
C5_Witness ==
    /\ rpc = "idle"
    /\ callsSinceWrite = 2
    /\ ~rRet
    /\ sequence > 0
    /\ lastSequence = sequence
    /\ consumerSequence = sequence

(***************************************************************************)
(* C6.  A tryRead called while the shared sequence is odd returns false,   *)
(* leaves lastSequence and consumerSequence unchanged and hands the caller *)
(* its update back untouched.  (A step of the consumer from "idle" is a    *)
(* call; every step of the producer changes wpc.)                          *)
(***************************************************************************)
C6_OddSequenceRejected ==
    [][(rpc = "idle" /\ wpc' = wpc /\ sequence % 2 = 1) =>
          /\ rpc' = "idle"
          /\ rRet' = FALSE
          /\ lastSequence' = lastSequence
          /\ consumerSequence' = consumerSequence
          /\ outUpdate' = DefaultUpdate]_vars

\* A call read the odd sequence of the second publish and returned false, the
\* first publish having been consumed before.
C6_Witness ==
    /\ rpc = "idle"
    /\ ~rRet
    /\ seq1 = sequence
    /\ sequence % 2 = 1
    /\ lastSequence = 2
    /\ consumerSequence = 2

(***************************************************************************)
(* C7.  Stalled channel: once the producer has stopped between the odd and *)
(* the even write of a publish, the sequence stays odd and every tryRead   *)
(* called from then on returns false, changing neither lastSequence nor    *)
(* consumerSequence nor the caller's update.                               *)
(***************************************************************************)
C7_StalledChannel ==
    [][wpc = "stalled" =>
          /\ wpc' = "stalled"
          /\ sequence % 2 = 1
          /\ sequence' = sequence
          /\ rpc = "idle" =>
                /\ rpc' = "idle"
                /\ rRet' = FALSE
                /\ lastSequence' = lastSequence
                /\ consumerSequence' = consumerSequence
                /\ outUpdate' = DefaultUpdate]_vars

\* A call made after the producer stopped inside its second publish, with the
\* whole header of that publish already written, returned false.
C7_Witness ==
    /\ wpc = "stalled"
    /\ rAfterStall
    /\ rpc = "idle"
    /\ ~rRet
    /\ seq1 = 3
    /\ hdr.model = wIn.transform.model
    /\ lastSequence = 2

(***************************************************************************)
(* C8.  Acknowledgment liveness: with a consumer that keeps polling (and   *)
(* whose tryRead keeps returning true) and a producer that keeps cycling,  *)
(* the producer eventually observes the acknowledgment and from then on    *)
(* publishes transform-only updates.                                       *)
(***************************************************************************)
C8_EventuallyAcked == ([]<>Returned) => <>[](geometryAcked)

(***************************************************************************)
(* C9.  The producer starts a transform-only publish only after it has     *)
(* observed consumerSequence equal to the sequence of its most recent      *)
(* geometry publish, which a tryRead has returned true for; until then     *)
(* every publish carries the geometry.                                     *)
(***************************************************************************)
TransformOnlyStarted ==
    \/ Publishing /\ ~wIn.writeGeometry
    \/ \E s \in DOMAIN published : ~published[s].writeGeometry

C9_TransformOnlyAfterAck ==
    /\ TransformOnlyStarted => geometryAcked
    /\ geometryAcked =>
          /\ lastGeometrySequence \in delivered
          /\ lastGeometrySequence \in DOMAIN published
          /\ published[lastGeometrySequence].writeGeometry
          /\ \A s \in DOMAIN published :
                published[s].writeGeometry => s <= lastGeometrySequence

\* A transform-only publish has completed.
C9_Witness == \E s \in DOMAIN published : ~published[s].writeGeometry

(***************************************************************************)
(* C10.  Round trip: a tryRead with no concurrent write, made when the     *)
(* latest publish carries geometry and has not been consumed yet, returns  *)
(* true with hasGeometry, the vertexCount and indexCount of the published  *)
(* mesh, its vertex and index bytes, and its binding, attributes, topology *)
(* and index type.                                                         *)
(***************************************************************************)
C10_RoundTrip ==
    (/\ rpc = "idle"
     /\ rQuiet
     /\ rFresh
     /\ sequence \in DOMAIN published
     /\ published[sequence].writeGeometry) =>
        /\ rRet
        /\ outUpdate.sequence = sequence
        /\ outUpdate.hasGeometry
        /\ outUpdate.geometry = ExpectedGeometry(published[sequence])

\* Scenario A: the cube, 8 vertices of stride 24 and 36 uint16_t indices.
C10_Witness ==
    /\ rpc = "idle"
    /\ rQuiet
    /\ rFresh
    /\ rRet
    /\ outUpdate.hasGeometry
    /\ outUpdate.geometry.vertexCount = 8
    /\ outUpdate.geometry.indexCount = 36
    /\ outUpdate.geometry.bindingDescription.stride = 24
    /\ Len(outUpdate.geometry.vertexData) = 8
    /\ Len(outUpdate.geometry.indexData) = 36

(***************************************************************************)
(* C11.  Geometry persistence under transform-only updates: once one       *)
(* geometry publish has been consumed and installed with setMesh, consumed *)
(* publishes with hasGeometry = 0 and hasTransform = 1 leave the active    *)
(* mesh, both buffers and the pipeline those of that first geometry, and   *)
(* each of them replaces the transform override by its own matrices.       *)
(***************************************************************************)
C11_Geometry(s) ==
    TryReadUpdate(s, published[s].header, published[s].vertices, published[s].indices).geometry

C11_GeometryPersists ==
    /\ [](/\ \A s \in DOMAIN published :
                (delivered = {s} /\ mpc \in {"read", "transform", "draw"}) =>
                   /\ mesh = Validated(C11_Geometry(s))
                   /\ vertexBuffer # 0
                   /\ graphicsPipeline = <<PipelineFor(C11_Geometry(s))>>
          /\ (rRet /\ ~outUpdate.hasGeometry /\ outUpdate.hasTransform) =>
                /\ mpc \in {"read", "transform", "draw"}
                /\ mpc \in {"read", "draw"} => transformOverride = <<outUpdate.transform>>)
    /\ [][/\ (rRet' /\ ~outUpdate'.hasGeometry) =>
                UNCHANGED <<mesh, vertexBuffer, indexBuffer, graphicsPipeline>>
          /\ (lastSequence' # lastSequence /\ hdr.hasTransform # 0) =>
                outUpdate'.transform = [model |-> hdr.model, view |-> hdr.view,
                                        proj |-> hdr.proj]]_vars

\* the second transform-only publish after the one geometry publish has been
\* consumed and applied, frames have been drawn
C11_Witness ==
    /\ delivered = {2}
    /\ lastSequence = 6
    /\ mpc = "draw"
    /\ rRet
    /\ ~outUpdate.hasGeometry
    /\ transformOverride = <<outUpdate.transform>>
    /\ mesh.vertexData = MeshOf(4).vertices
    /\ indexBuffer # 0
    /\ \A k \in Slots : everSubmitted[k]

(***************************************************************************)
(* C12.  Transport-recoverable rejection: in front of a stable snapshot    *)
(* whose magic or version mismatches, or whose geometry has an attribute   *)
(* count outside 1..8, a vertex byte size of 0 or above 4 MiB, or an index *)
(* byte size above 2 MiB, tryRead returns false and lastSequence,          *)
(* consumerSequence and the caller's update stay as they were; a geometry  *)
(* with an index count of 0 is accepted as an un-indexed mesh.             *)
(***************************************************************************)
C12_Malformed(h) ==
    \/ h.magic # SharedGeometryMagic
    \/ h.version # SharedGeometryVersion
    \/ /\ h.hasGeometry # 0
       /\ \/ h.attributeCount \notin 1..8
          \/ h.vertexCount * h.vertexStride = 0
          \/ h.vertexCount * h.vertexStride > 4 * 1024 * 1024
          \/ h.indexCount * (IF h.indexType = VK_INDEX_TYPE_UINT32 THEN 4 ELSE 2)
                > 2 * 1024 * 1024

C12_MalformedSnapshotRejected ==
    /\ C12_Malformed(hdr) =>
          /\ rpc = "idle" => ~rRet
          /\ lastSequence = 0
          /\ consumerSequence = 0
          /\ outUpdate = DefaultUpdate
    /\ (/\ ~C12_Malformed(hdr)
        /\ hdr.hasGeometry # 0
        /\ hdr.indexCount = 0
        /\ rpc = "idle"
        /\ callsSinceWrite = 1) =>
          /\ rRet
          /\ outUpdate.hasGeometry
          /\ outUpdate.geometry.indexCount = 0
          /\ outUpdate.geometry.indexData = <<>>
          /\ outUpdate.geometry.vertexData = MeshOf(4).vertices

\* tryRead has returned from a snapshot that is in order except for its
\* index byte size
C12_Witness ==
    /\ rpc = "idle"
    /\ callsSinceWrite > 0
    /\ ~rRet
    /\ hdr.magic = SharedGeometryMagic
    /\ hdr.version = SharedGeometryVersion
    /\ hdr.hasGeometry # 0
    /\ hdr.attributeCount = SharedGeometryMaxAttributes
    /\ VertexBytes(hdr) = SizeofVertex
    /\ IndexBytes(hdr) > SharedGeometryMaxIndexBytes

(***************************************************************************)
(* C13.  tryRead never blocks: whatever the producer does (an odd          *)
(* sequence, a writer stalled inside a publish, a writer that keeps        *)
(* publishing), a call that has started can always take its next step,     *)
(* every step brings it strictly closer to its return, and a miss (an odd  *)
(* or changed sequence) makes it return false instead of starting over.    *)
(***************************************************************************)
C13_StepsLeft(pc) ==
    CASE pc = "idle" -> 0
      [] pc = "finish" -> 1
      [] pc = "indexData" -> 2
      [] pc = "vertexData" -> 3
      [] pc = "check" -> 4
      [] pc = "transform" -> 5
      [] pc = "layout" -> 6
      [] pc = "flags" -> 7

C13_TryReadNeverBlocks ==
    /\ [](rpc # "idle" => ENABLED Consumer)
    /\ [][/\ rpc # "idle" => C13_StepsLeft(rpc') <= C13_StepsLeft(rpc)
          /\ (rpc # "idle" /\ Consumer) => C13_StepsLeft(rpc') < C13_StepsLeft(rpc)
          /\ (RCall /\ IsOdd(sequence)) => (rpc' = "idle" /\ ~rRet')
          /\ (RCheck /\ Unstable(seq1, sequence) /\ seqReload) => (rpc' = "idle" /\ ~rRet')]_vars

\* a call that started on an even, new sequence has returned false because
\* the producer moved the sequence during the copy
C13_Witness ==
    /\ rpc = "idle"
    /\ ~rRet
    /\ seqReload
    /\ ~IsOdd(seq1)
    /\ seq1 # lastSequence
    /\ seq1 < sequence

(***************************************************************************)
(* C14.  A transfer request larger than STAGING_RING_SIZE is rejected      *)
(* before any change: the ring contents, the cursor and the pending        *)
(* transfers are as stagingRingWrite found them (after the flush of        *)
(* transferToDeviceLocal), no transfer is issued and no fence waited on.   *)
(***************************************************************************)
C14_OversizeRejected ==
    [][\A size \in TransferSizes :
          (size > STAGING_RING_SIZE /\ (TransferToDeviceLocal(size) \/ TransferRejected(size)))
          => /\ ringOwner' = ringOwner
             /\ stagingRingOffset' = stagingRingOffset
             /\ pendingTransfers' = FlushCompleted(pendingTransfers)
             /\ transfersIssued' = transfersIssued
             /\ lastWaited' = {}]_vars

\* an oversize request was rejected with the ring in use: an unfinished
\* transfer is pending and the cursor is inside the ring
C14_Witness ==
    /\ ringThrew
    /\ stagingRingOffset > 0
    /\ \E i \in DOMAIN pendingTransfers : ~pendingTransfers[i].signaled

(***************************************************************************)
(* C19.  When the acquisition reports an out-of-date swapchain, drawFrame  *)
(* returns without advancing: currentFrame is unchanged, the slot's fence  *)
(* is still signaled, nothing is recorded or submitted.                    *)
(***************************************************************************)
C19_OutOfDateAborts ==
    [][(dpc = "idle" /\ lastAcquire' = "VK_ERROR_OUT_OF_DATE_KHR"
        /\ \E result \in AcquireResults : DrawAcquire(result))
       => /\ dpc' = "idle"
          /\ currentFrame' = currentFrame
          /\ inFlightFences'[currentFrame]
          /\ slotBuffers' = slotBuffers
          /\ everSubmitted' = everSubmitted
          /\ \A k \in Slots : commandBufferPending'[k] => commandBufferPending[k]]_vars

\* the second frame was aborted at acquisition: slot 1 is still current and
\* was never submitted
C19_Witness ==
    /\ lastAcquire = "VK_ERROR_OUT_OF_DATE_KHR"
    /\ dpc = "idle"
    /\ currentFrame = 1
    /\ everSubmitted[0]
    /\ ~everSubmitted[1]
    /\ inFlightFences[1]

(***************************************************************************)
(* C20.  Round-robin slots: currentFrame stays in 0..MAX_FRAMES_IN_FLIGHT-1*)
(* every drawFrame that reaches presentation advances it by one modulo     *)
(* MAX_FRAMES_IN_FLIGHT, nothing else changes it, and the submissions the  *)
(* GPU has not completed are at most one per slot.                         *)
(***************************************************************************)
C20_RoundRobin ==
    /\ [](/\ currentFrame \in Slots
          /\ framesInFlight <= MAX_FRAMES_IN_FLIGHT
          /\ framesInFlight = Cardinality({k \in Slots : commandBufferPending[k]}))
    /\ [][/\ \A result \in PresentResults :
                DrawSubmit(result) =>
                    currentFrame' = (currentFrame + 1) % MAX_FRAMES_IN_FLIGHT
          /\ currentFrame' # currentFrame =>
                \E result \in PresentResults : DrawSubmit(result)]_vars

\* two frames were submitted, both are in flight, and the current slot is 0 again
C20_Witness ==
    /\ currentFrame = 0
    /\ dpc = "idle"
    /\ everSubmitted[0]
    /\ everSubmitted[1]
    /\ framesInFlight = MAX_FRAMES_IN_FLIGHT

(***************************************************************************)
(* C15.  Layout-change detection in setMesh: with a pipeline in place, a   *)
(* new mesh whose binding, attributes and topology equal the active mesh's *)
(* leaves the pipeline untouched even though its bytes differ; a mesh that *)
(* differs in attribute count, in an attribute's format or offset, or in   *)
(* topology has the pipeline destroyed and recreated; with no pipeline in  *)
(* place setMesh creates one.                                              *)
(***************************************************************************)
C15_SameLayout(a, b) ==
    /\ a.bindingDescription = b.bindingDescription
    /\ a.attributeDescriptions = b.attributeDescriptions
    /\ a.topology = b.topology

C15_LayoutChangeDetection ==
    [][\A g \in SetMeshInputs :
          SetMesh(g) =>
             IF graphicsPipeline = <<>>
             THEN pipelineOp' = "created" /\ graphicsPipeline' = <<PipelineFor(g)>>
             ELSE IF C15_SameLayout(mesh, g)
             THEN pipelineOp' = "kept" /\ graphicsPipeline' = graphicsPipeline
             ELSE pipelineOp' = "recreated" /\ graphicsPipeline' = <<PipelineFor(g)>>]_vars

\* a setMesh has just replaced a mesh by one of the same layout and other
\* bytes, and kept the pipeline
C15_Witness ==
    /\ pipelineOp = "kept"
    /\ graphicsPipeline = <<PipelineFor(replacedMesh)>>
    /\ C15_SameLayout(replacedMesh, mesh)
    /\ replacedMesh.vertexData # mesh.vertexData

(***************************************************************************)
(* C16.  setMesh called with a zero binding stride, with empty vertex      *)
(* data, with a vertex byte count that is no multiple of the stride, or    *)
(* with an index byte count that is no multiple of the index width throws, *)
(* and the active mesh, both buffers, the pipeline and the pending         *)
(* transfers are as before the call; the throw waits for no fence (it is   *)
(* possible whatever the frames and transfers in flight).                  *)
(***************************************************************************)
C16_Malformed(g) ==
    IF g.bindingDescription.stride = 0 \/ Len(g.vertexData) = 0 THEN TRUE
    ELSE \/ (Len(g.vertexData) * SizeofVertex) % g.bindingDescription.stride # 0
         \/ (Len(g.indexData) * SizeofUint16) %
                (IF g.indexType = VK_INDEX_TYPE_UINT32 THEN SizeofUint32 ELSE SizeofUint16) # 0

C16_RejectionChangesNothing ==
    /\ [](dpc = "idle" =>
             \A g \in SetMeshInputs : C16_Malformed(g) => ENABLED SetMeshThrows(g))
    /\ [][\A g \in SetMeshInputs :
             (C16_Malformed(g) /\ (SetMesh(g) \/ SetMeshThrows(g))) =>
                /\ meshThrew'
                /\ UNCHANGED <<mesh, vertexBuffer, indexBuffer, graphicsPipeline,
                               pendingTransfers, stagingRingOffset, transfersIssued,
                               inFlightFences, commandBufferPending>>]_vars

\* a setMesh has thrown with a mesh installed, frames in flight on every slot
\* and an upload still pending
C16_Witness ==
    /\ meshThrew
    /\ dpc = "idle"
    /\ vertexBuffer # 0
    /\ indexBuffer # 0
    /\ graphicsPipeline # <<>>
    /\ \A k \in Slots : ~inFlightFences[k] /\ commandBufferPending[k]
    /\ \E i \in DOMAIN pendingTransfers : ~pendingTransfers[i].signaled

(***************************************************************************)
(* C17.  A malformed producer update is invisible: whatever snapshot is    *)
(* published, one that passes tryRead and fails setMesh's validation       *)
(* (binding stride 0, or a stride that does not divide the vertex byte     *)
(* count) included, the consumer keeps rendering with the previous         *)
(* geometry: main is never ended by an update.                             *)
(***************************************************************************)
C17_MalformedUpdateInvisible ==
    /\ mpc # "exited"
    /\ meshThrew => mesh # outUpdate.geometry

(***************************************************************************)
(* C18.  Drain before retire: setMesh destroys the old vertex and index    *)
(* buffers only when every frame slot's fence is signaled and the pending  *)
(* transfers have been waited for and dropped, so no submitted frame and   *)
(* no outstanding staging copy refers to a destroyed buffer.               *)
(***************************************************************************)
LiveBuffers == {vertexBuffer, indexBuffer} \ {0}

C18_DrainBeforeRetire ==
    /\ [](/\ \A k \in Slots : commandBufferPending[k] => slotBuffers[k] \subseteq LiveBuffers
          /\ \A i \in DOMAIN pendingTransfers :
                (~pendingTransfers[i].signaled /\ pendingTransfers[i].dstBuffer # 0)
                    => pendingTransfers[i].dstBuffer \in LiveBuffers)
    /\ [][\A g \in SetMeshInputs :
             SetMesh(g) =>
                /\ \A k \in Slots : inFlightFences[k] /\ ~commandBufferPending[k]
                /\ \A i \in DOMAIN pendingTransfers' :
                      pendingTransfers'[i].fence > transfersIssued]_vars

\* a second mesh is installed: both slots once drew with buffers that are
\* destroyed by now, and the new mesh's uploads are pending
C18_Witness ==
    /\ replacedMesh # DefaultGeometry
    /\ \A k \in Slots : /\ everSubmitted[k]
                        /\ slotBuffers[k] # {}
                        /\ slotBuffers[k] \cap LiveBuffers = {}
    /\ \E i \in DOMAIN pendingTransfers : ~pendingTransfers[i].signaled

(***************************************************************************)
(* C21.  When vkQueuePresentKHR reports out-of-date or suboptimal,         *)
(* drawFrame recreates the swapchain after the frame has been submitted    *)
(* and presented (the device drains: every slot's fence ends signaled and  *)
(* nothing stays in flight) and still advances to the next slot; a         *)
(* suboptimal result of the acquisition does not abort the frame.          *)
(* framebufferResized has no writer in the program and stays false.        *)
(***************************************************************************)
C21_PresentRecreatesAndAdvances ==
    [][/\ \A result \in {"VK_ERROR_OUT_OF_DATE_KHR", "VK_SUBOPTIMAL_KHR"} :
             DrawSubmit(result) =>
                /\ everSubmitted'[currentFrame]
                /\ \A k \in Slots : inFlightFences'[k] /\ ~commandBufferPending'[k]
                /\ framesInFlight' = 0
                /\ currentFrame' = (currentFrame + 1) % MAX_FRAMES_IN_FLIGHT
                /\ dpc' = "idle"
       /\ DrawSubmit("VK_SUCCESS") =>
             /\ commandBufferPending'[currentFrame]
             /\ ~inFlightFences'[currentFrame]
       /\ DrawAcquire("VK_SUBOPTIMAL_KHR") =>
             /\ dpc' = "record"
             /\ commandBufferPending' = commandBufferPending]_vars

\* the one frame drawn so far was acquired with a suboptimal result, went
\* through and has drained; the renderer stands at the next slot
C21_Witness ==
    /\ lastAcquire = "VK_SUBOPTIMAL_KHR"
    /\ dpc = "idle"
    /\ currentFrame = 1
    /\ everSubmitted[0]
    /\ ~everSubmitted[1]
    /\ framesInFlight = 0
    /\ \A k \in Slots : inFlightFences[k]

(***************************************************************************)
(* C28: stagingRingWrite waits on the fence of a pending transfer only if  *)
(* the ring range [ringOffset, ringOffset + ringSize) of that transfer     *)
(* intersects the byte range the write is about to fill, also when the     *)
(* write wraps to offset 0.                                                *)
(***************************************************************************)
C28_WaitsOnlyOnOverlap ==
    [][\A size \in TransferSizes :
          TransferToDeviceLocal(size) =>
             LET writeEnd == stagingRingOffset'
                 writeOffset == writeEnd - size
             IN  \A i \in DOMAIN pendingTransfers :
                    pendingTransfers[i].fence \in lastWaited' =>
                       /\ writeOffset < pendingTransfers[i].ringOffset
                                           + pendingTransfers[i].ringSize
                       /\ pendingTransfers[i].ringOffset < writeEnd]_vars

(***************************************************************************)
(* C29: ring cursor rule.  A write of size <= STAGING_RING_SIZE lands at   *)
(* the cursor when cursor + size <= STAGING_RING_SIZE and at 0 otherwise;  *)
(* afterwards the cursor is that offset plus size; transferToDeviceLocal   *)
(* records exactly one new pending transfer, whose ring range starts at    *)
(* that offset and has that size.                                          *)
(***************************************************************************)
C29_RingCursorRule ==
    [][\A size \in TransferSizes :
          TransferToDeviceLocal(size) =>
             LET returned == IF stagingRingOffset + size <= STAGING_RING_SIZE
                             THEN stagingRingOffset ELSE 0
                 OldFences == {pendingTransfers[i].fence : i \in DOMAIN pendingTransfers}
                 n == Len(pendingTransfers')
             IN  /\ size <= STAGING_RING_SIZE
                 /\ stagingRingOffset' = returned + size
                 /\ n >= 1
                 /\ pendingTransfers'[n].ringOffset = returned
                 /\ pendingTransfers'[n].ringSize = size
                 /\ pendingTransfers'[n].fence \notin OldFences
                 /\ \A i \in 1..(n - 1) : pendingTransfers'[i].fence \in OldFences
                 /\ \A b \in DOMAIN ringOwner :
                       (returned <= b /\ b < returned + size)
                          <=> ringOwner'[b] = pendingTransfers'[n].fence]_vars

\* a write that exactly fills the ring up to its end did not wrap, and the
\* next one wrapped to 0 while a transfer at the end of the ring is pending
C29_Witness ==
    /\ Len(pendingTransfers) = 2
    /\ pendingTransfers[1].ringOffset + pendingTransfers[1].ringSize = STAGING_RING_SIZE
    /\ pendingTransfers[1].ringOffset > 0
    /\ pendingTransfers[2].ringOffset = 0
    /\ stagingRingOffset = pendingTransfers[2].ringSize


(***************************************************************************)
(* C30: flushCompletedTransfers is a non-blocking pass.  It removes from   *)
(* pendingTransfers exactly the transfers whose fence is signaled, keeps   *)
(* every other transfer with its ring range and in the same relative       *)
(* order, waits on no fence (it returns whatever the fences read, and no   *)
(* kept fence has become signaled), and leaves the ring cursor and the     *)
(* ring contents as they were.                                             *)
(***************************************************************************)
C30_FlushIsNonBlockingPass ==
    /\ [](dpc = "idle" => ENABLED FlushCompletedTransfers)
    /\ [][FlushCompletedTransfers =>
            LET Position(t) == CHOOSE k \in DOMAIN pendingTransfers : pendingTransfers[k] = t
            IN  /\ {pendingTransfers'[i] : i \in DOMAIN pendingTransfers'}
                      = {pendingTransfers[k] : k \in {j \in DOMAIN pendingTransfers :
                                                        ~pendingTransfers[j].signaled}}
                /\ \A i, j \in DOMAIN pendingTransfers' :
                      i < j => Position(pendingTransfers'[i]) < Position(pendingTransfers'[j])
                /\ lastWaited' = lastWaited
                /\ stagingRingOffset' = stagingRingOffset
                /\ ringOwner' = ringOwner]_vars

\* four transfers were issued without a wait or a throw; the second finished
\* first and was dropped by a pass, then the fourth was issued, finished and
\* was dropped by a later pass: the first and the third are still pending, in
\* that order, and the ring still holds the bytes of all four
C30_Witness ==
    /\ transfersIssued = 4
    /\ Len(pendingTransfers) = 2
    /\ pendingTransfers[1].fence = 1 /\ ~pendingTransfers[1].signaled
    /\ pendingTransfers[2].fence = 3 /\ ~pendingTransfers[2].signaled
    /\ pendingTransfers[1].ringOffset = 0 /\ pendingTransfers[2].ringOffset = 2
    /\ lastWaited = {}
    /\ ~ringThrew
    /\ stagingRingOffset = 4
    /\ \A b \in 0..3 : ringOwner[b] = b + 1


(***************************************************************************)
(* C23: write sets of the two processes on the shared region.  A step of   *)
(* tryRead leaves sequence, the header and both payload arrays as they     *)
(* are, and stores to consumerSequence only in the step that makes the     *)
(* call return true (storing the sequence it read); a step of the          *)
(* producer's publish leaves consumerSequence as it is.                    *)
(***************************************************************************)
C23_WriteSets ==
    [][/\ Consumer =>
             /\ sequence' = sequence
             /\ hdr' = hdr
             /\ vertexData' = vertexData
             /\ indexData' = indexData
             /\ consumerSequence' # consumerSequence =>
                   /\ rpc = "finish" /\ rpc' = "idle" /\ rRet'
                   /\ consumerSequence' = seq1
             /\ (rpc' = "idle" /\ ~rRet') => consumerSequence' = consumerSequence
       /\ (Producer(Uint32Bits, 2 * MaxPublishes, MeshInputs) \/ WStall) =>
             consumerSequence' = consumerSequence]_vars

\* a call that returned true stored 2; the next call met a publish in
\* progress and returned false; that publish has ended since, and
\* consumerSequence still holds 2
C23_Witness ==
    /\ consumerSequence = 2
    /\ lastSequence = 2
    /\ seq1 = 3
    /\ rpc = "idle"
    /\ ~rRet
    /\ sequence = 4
    /\ wpc \in {"loop", "ack"}


(***************************************************************************)
(* C27: sequence parity.  sequence is odd exactly while a publish is       *)
(* between its first write (seq + 1) and its last write (seq + 2), a       *)
(* publish the producer stopped inside included; sequence changes only by  *)
(* those two writes, so every completed publish raises it by exactly 2;    *)
(* and every write to the header and to the payload arrays happens while   *)
(* sequence is odd, before and after the write.                            *)
(***************************************************************************)
C27_SequenceParity ==
    /\ [](/\ (sequence % 2 = 1) <=> (wpc \notin {"loop", "ack"})
          /\ sequence % 2 = 1 => sequence = wSeq + 1
          /\ sequence % 2 = 0 => sequence = 2 * Cardinality(DOMAIN published))
    /\ [][/\ sequence' # sequence =>
                /\ sequence' = sequence + 1
                /\ (sequence % 2 = 1) => sequence' = wSeq + 2
          /\ (hdr' # hdr \/ vertexData' # vertexData \/ indexData' # indexData) =>
                /\ sequence % 2 = 1
                /\ sequence' = sequence]_vars

\* the second publish has written its payload and is about to write the
\* transform; the payload of the first one has been overwritten
C27_Witness ==
    /\ sequence = 3
    /\ wSeq = 2
    /\ wpc = "transform"
    /\ wIn.writeGeometry
    /\ DOMAIN published = {2}
    /\ vertexData # [i \in DOMAIN vertexData |-> 0]
    /\ hdr.vertexCount = Len(wIn.vertices)
    /\ hdr.vertexCount # Len(published[2].vertices)


(***************************************************************************)
(* C26: transform override.  No override is set at the start; setTransform *)
(* installs its argument and clearTransformOverride removes the override,  *)
(* and nothing else changes it; the uniform data a drawFrame assembles for *)
(* its slot is exactly the model, view and projection of the override in   *)
(* force, or the default animation when there is none, the other slots'    *)
(* data staying as they are; and the two calls change neither the mesh,    *)
(* the buffers, the pipeline, the frame slots nor the staging ring.        *)
(***************************************************************************)
C26_TransformOverride ==
    /\ transformOverride = <<>>
    /\ [][/\ \A t \in TransformInputs : SetTransform(t) => transformOverride' = <<t>>
          /\ ClearTransformOverride => transformOverride' = <<>>
          /\ transformOverride' # transformOverride =>
                \/ \E t \in TransformInputs : SetTransform(t)
                \/ ClearTransformOverride
          /\ \A result \in PresentResults :
                DrawSubmit(result) =>
                   /\ uniformBuffersMapped'[currentFrame] =
                         IF transformOverride = <<>>
                         THEN DefaultAnimation
                         ELSE transformOverride[1]
                   /\ \A k \in Slots \ {currentFrame} :
                         uniformBuffersMapped'[k] = uniformBuffersMapped[k]
          /\ uniformBuffersMapped' # uniformBuffersMapped =>
                \E result \in PresentResults : DrawSubmit(result)
          /\ ((\E t \in TransformInputs : SetTransform(t)) \/ ClearTransformOverride) =>
                /\ UNCHANGED <<mesh, vertexBuffer, indexBuffer, graphicsPipeline>>
                /\ UNCHANGED <<frameVars, ringVars>>]_vars

\* with a mesh installed, a frame was drawn on slot 0 under an override and,
\* after the override was cleared, one on slot 1 with the default animation;
\* a new override is set and no frame has used it yet
C26_Witness ==
    /\ vertexBuffer # 0
    /\ graphicsPipeline # <<>>
    /\ uniformBuffersMapped[0] \in TransformInputs
    /\ uniformBuffersMapped[1] = DefaultAnimation
    /\ transformOverride # <<>>
    /\ transformOverride[1] # uniformBuffersMapped[0]
    /\ currentFrame = 0
    /\ dpc = "idle"


(***************************************************************************)
(* C24: open is idempotent and never creates the region.  On a reader that *)
(* is already open it returns true and leaves the mapping handle, the view *)
(* and the count of handles obtained as they are; when no region of that   *)
(* name exists it returns false and leaves the reader with neither handle  *)
(* nor view; in no case does the region come into existence, or the shared *)
(* region or the reader's lastSequence change, by a call of open.          *)
(***************************************************************************)
C24_OpenIdempotentNoCreate ==
    /\ []((buffer = 0) <=> (mappingHandle = 0))
    /\ [][\A mapOk \in BOOLEAN :
             Open(mapOk) =>
                /\ buffer # 0 =>
                      /\ lastOpen'[1].ret
                      /\ mappingHandle' = mappingHandle
                      /\ buffer' = buffer
                      /\ mappingsOpened' = mappingsOpened
                /\ (buffer = 0 /\ ~regionExists) =>
                      /\ ~lastOpen'[1].ret
                      /\ mappingHandle' = 0
                      /\ buffer' = 0
                      /\ mappingsOpened' = mappingsOpened
                /\ lastOpen'[1].ret <=> buffer' # 0
                /\ regionExists' = regionExists
                /\ UNCHANGED <<sharedVars, lastSequence>>]_vars

\* the reader was opened, read the first publish, and open was called again:
\* it returned true and the reader still holds its first handle
C24_Witness ==
    /\ lastOpen = <<[ret |-> TRUE, wasOpen |-> TRUE]>>
    /\ mappingHandle = 1
    /\ buffer = 1
    /\ mappingsOpened = 1
    /\ lastSequence = 2
    /\ consumerSequence = 2

(***************************************************************************)
(* C25: whenever the reader is not open (never opened, open failed, or     *)
(* closed) no tryRead is under way, a call of tryRead returns at once,     *)
(* returns false, loads nothing from the shared region and leaves the      *)
(* shared region and lastSequence as they are; close leaves the reader     *)
(* not open, and it stays so until an open that returns true.              *)
(***************************************************************************)
C25_ClosedReaderReadsNothing ==
    /\ [](buffer = 0 => (rpc = "idle" /\ ENABLED RCallClosed))
    /\ [][/\ (buffer = 0 /\ (Consumer \/ RCallClosed)) =>
                /\ ~rRet'
                /\ rpc' = "idle"
                /\ seq1' = seq1
                /\ header' = header
                /\ lastSequence' = lastSequence
                /\ UNCHANGED sharedVars
          /\ Close => (buffer' = 0 /\ lastSequence' = lastSequence)
          /\ (buffer = 0 /\ buffer' # 0) =>
                /\ \E mapOk \in BOOLEAN : Open(mapOk)
                /\ lastOpen'[1].ret]_vars

\* after a successful read of the first publish the reader was closed; the
\* second publish is complete and nobody is writing, and two calls of
\* tryRead begun since then have returned false
C25_Witness ==
    /\ buffer = 0
    /\ mappingsOpened = 1
    /\ lastSequence = 2
    /\ sequence = 4
    /\ consumerSequence = 2
    /\ callsSinceWrite = 2
    /\ rQuiet
    /\ rFresh
    /\ ~rRet
    /\ rpc = "idle"


(***************************************************************************)
(* C22: the zero-area wait terminates.  When recreateSwapChain is in its   *)
(* polling loop and the window has a nonzero size, the loop is left (and   *)
(* the resolution-dependent resources are rebuilt); and the loop is never  *)
(* left, hence nothing rebuilt from it, while the size it observes is      *)
(* zero.                                                                   *)
(***************************************************************************)
C22_ZeroAreaWaitTerminates ==
    /\ (InPoll /\ ~ZeroDimensions(clientArea)) ~> ~InPoll
    /\ [][(InPoll /\ ~InPoll') => ~ZeroDimensions(GetDimensions(window))]_vars


(***************************************************************************)
(* C38: staging bookkeeping.  Whatever the transferToDeviceLocal,          *)
(* flushCompletedTransfers and waitAllTransfers calls and the order in     *)
(* which the fences signal, stagingRingOffset lies in                      *)
(* 0..STAGING_RING_SIZE, the ring range of every pending transfer lies     *)
(* within [0, STAGING_RING_SIZE], and the ring ranges of two different     *)
(* pending transfers of nonzero size have no byte in common.               *)
(***************************************************************************)
C38_StagingBookkeeping ==
    /\ stagingRingOffset \in 0..STAGING_RING_SIZE
    /\ \A i \in DOMAIN pendingTransfers :
          /\ pendingTransfers[i].ringOffset >= 0
          /\ pendingTransfers[i].ringSize >= 0
          /\ pendingTransfers[i].ringOffset + pendingTransfers[i].ringSize
                <= STAGING_RING_SIZE
    /\ \A i, j \in DOMAIN pendingTransfers :
          (i # j /\ pendingTransfers[i].ringSize > 0 /\ pendingTransfers[j].ringSize > 0) =>
             \/ pendingTransfers[i].ringOffset + pendingTransfers[i].ringSize
                   <= pendingTransfers[j].ringOffset
             \/ pendingTransfers[j].ringOffset + pendingTransfers[j].ringSize
                   <= pendingTransfers[i].ringOffset

\* the ring is full of unfinished transfers: three of them are pending, the
\* last one ends exactly at the end of the ring, and the cursor stands there
C38_Witness ==
    /\ Len(pendingTransfers) = 3
    /\ \A i \in DOMAIN pendingTransfers : ~pendingTransfers[i].signaled
    /\ pendingTransfers[3].ringOffset + pendingTransfers[3].ringSize = STAGING_RING_SIZE
    /\ stagingRingOffset = STAGING_RING_SIZE
    /\ pendingTransfers[1].ringOffset = 0


(***************************************************************************)
(* C39: monotonic consumption.  With one reader on one channel and the     *)
(* sequence far from 2^32, every tryRead that returns true returns an      *)
(* even sequence strictly greater than the one the reader returned         *)
(* before (lastSequence at that moment), so no publish is delivered        *)
(* twice; when it returns, the returned sequence, lastSequence and         *)
(* consumerSequence are the same number, and they stay so until the next   *)
(* call; consumerSequence never exceeds the shared sequence.               *)
(***************************************************************************)
C39_MonotonicConsumption ==
    /\ [](consumerSequence <= sequence)
    /\ []((rpc = "idle" /\ rRet) =>
             /\ outUpdate.sequence = lastSequence
             /\ lastSequence = consumerSequence)
    /\ [][(rpc = "finish" /\ rpc' = "idle" /\ rRet') =>
             /\ outUpdate'.sequence % 2 = 0
             /\ outUpdate'.sequence > lastSequence
             /\ outUpdate'.sequence = lastSequence'
             /\ lastSequence' = consumerSequence'
             /\ consumerSequence' <= sequence']_vars

\* two publishes were consumed one after the other: the first (sequence 2)
\* brought the geometry, the second (sequence 4) has just been returned
C39_Witness ==
    /\ rpc = "idle"
    /\ rRet
    /\ 2 \in delivered
    /\ outUpdate.sequence = 4
    /\ lastSequence = 4
    /\ consumerSequence = 4


(***************************************************************************)
(* C33: a swapchain recreation rebuilds the graphics pipeline exactly when *)
(* a pipeline existed when the recreation started.  As long as no mesh     *)
(* was ever installed the pipeline stays absent whatever recreations       *)
(* happen; a drawFrame that recreates the swapchain with a pipeline        *)
(* present ends with a pipeline built for the active mesh's layout, and    *)
(* one that recreates it without a pipeline ends without one.              *)
(***************************************************************************)
C33_RecreationRebuildsPipeline ==
    /\ [](pipelineOp = "none" => graphicsPipeline = <<>>)
    /\ [][((\E result \in AcquireResults : AcquireAborts(result) /\ DrawAcquire(result))
           \/ (\E result \in PresentResults : PresentRecreates(result) /\ DrawSubmit(result)))
          => /\ (graphicsPipeline = <<>>) => (graphicsPipeline' = <<>>)
             /\ (graphicsPipeline # <<>>) => (graphicsPipeline' = <<PipelineFor(mesh)>>)
             /\ mesh' = mesh]_vars

\* slot 0 holds a frame that drew the current vertex buffer, and the drawFrame
\* after it was aborted at acquisition and recreated the swapchain: the
\* pipeline is there, built for the active mesh
C33_Witness ==
    /\ dpc = "idle"
    /\ lastAcquire = "VK_ERROR_OUT_OF_DATE_KHR"
    /\ everSubmitted[0]
    /\ vertexBuffer # 0
    /\ slotBuffers[0] = {vertexBuffer}
    /\ mesh = Validated(PlainMesh)
    /\ graphicsPipeline = <<PipelineFor(mesh)>>


(***************************************************************************)
(* C34: active-mesh invariants.  After any sequence of setMesh calls,      *)
(* accepted or rejected, the active mesh is the initial empty mesh, or it  *)
(* has stride > 0, vertexCount > 0 with vertexCount * stride bytes of      *)
(* vertex data, and indexCount * (2 or 4, by index type) bytes of index    *)
(* data: the counts are those the byte sizes give, whatever counts the     *)
(* caller supplied.                                                        *)
(***************************************************************************)
C34_ActiveMeshCounts ==
    \/ mesh = DefaultGeometry
    \/ /\ mesh.bindingDescription.stride > 0
       /\ mesh.vertexCount > 0
       /\ VertexDataSize(mesh) = mesh.vertexCount * mesh.bindingDescription.stride
       /\ IndexStride(mesh.indexType) \in {SizeofUint16, SizeofUint32}
       /\ IndexDataSize(mesh) = mesh.indexCount * IndexStride(mesh.indexType)

\* the active mesh came from a caller whose counts (5 vertices, no index) were
\* wrong: it has one vertex and one 32-bit index; a malformed mesh was
\* refused after it
C34_Witness ==
    /\ meshThrew
    /\ mesh # WideIndexMesh
    /\ mesh = [WideIndexMesh EXCEPT !.vertexCount = 1, !.indexCount = 1]


(***************************************************************************)
(* C35: drawFrame runs without geometry, and draws only what is there.     *)
(* Whatever the active mesh and the pipeline are (none ever set            *)
(* included), drawFrame can acquire as soon as its slot's fence is         *)
(* signaled, and once it has acquired it submits, presents and advances    *)
(* to the next slot.  The commands it records draw exactly when a          *)
(* pipeline exists and the active mesh has vertexCount > 0; the draw binds *)
(* the vertex buffer, and it is indexed (binds the index buffer) exactly   *)
(* when indexCount > 0.                                                    *)
(***************************************************************************)
C35_FrameWithOrWithoutGeometry ==
    /\ []((dpc = "idle" /\ FenceWaitReturns(inFlightFences, currentFrame)) =>
             \A result \in AcquireResults : ENABLED DrawAcquire(result))
    /\ [](dpc = "record" => \A result \in PresentResults : ENABLED DrawSubmit(result))
    /\ [][(\E result \in PresentResults : DrawSubmit(result)) =>
             LET drawn == graphicsPipeline # <<>> /\ mesh.vertexCount > 0
                 bound == slotBuffers'[currentFrame]
             IN  /\ dpc' = "idle"
                 /\ currentFrame' = NextFrame(currentFrame)
                 /\ everSubmitted'[currentFrame]
                 /\ (bound # {}) <=> drawn
                 /\ drawn => vertexBuffer \in bound
                 /\ (indexBuffer \in bound) <=> (drawn /\ mesh.indexCount > 0)
                 /\ bound \subseteq {vertexBuffer, indexBuffer}]_vars

\* slot 0's frame was submitted before any mesh was set and drew nothing;
\* slot 1's frame, after setMesh(IndexedMesh), drew indexed
C35_Witness ==
    /\ dpc = "idle"
    /\ currentFrame = 0
    /\ everSubmitted[0] /\ everSubmitted[1]
    /\ slotBuffers[0] = {}
    /\ mesh = Validated(IndexedMesh)
    /\ indexBuffer # 0
    /\ slotBuffers[1] = {vertexBuffer, indexBuffer}


(***************************************************************************)
(* C36: what a frame of the consumer loop does with the update.  Once a    *)
(* consumed update has been applied (tryRead returned true and main has    *)
(* reached drawFrame), the transform override is the update's transform    *)
(* if hasTransform is set and is absent if it is not (a geometry-only      *)
(* update clears it).  A frame whose tryRead returns false goes straight   *)
(* to drawFrame and leaves the active mesh, its buffers and the override   *)
(* as they were, and drawFrame changes none of them.  A stable snapshot    *)
(* with neither hasGeometry nor hasTransform makes tryRead return false    *)
(* and leaves lastSequence and consumerSequence where they were.           *)
(***************************************************************************)
C36_LoopAppliesUpdate ==
    /\ []((mpc = "draw" /\ rRet) =>
             transformOverride = IF outUpdate.hasTransform THEN <<outUpdate.transform>>
                                                           ELSE <<>>)
    /\ [][(MainTryRead /\ ~rRet') =>
             /\ mpc' = "draw"
             /\ UNCHANGED <<mesh, vertexBuffer, indexBuffer, transformOverride>>]_vars
    /\ [][(mpc = "draw") =>
             UNCHANGED <<mesh, vertexBuffer, indexBuffer, transformOverride>>]_vars
    /\ [][(MainTryRead /\ hdr.hasGeometry = 0 /\ hdr.hasTransform = 0) =>
             /\ ~rRet'
             /\ UNCHANGED <<lastSequence, consumerSequence>>]_vars

\* a frame drawn with an override in force filled slot 0's uniform buffer;
\* then a geometry-only update was consumed and applied: the override is gone
C36_Witness ==
    /\ mpc = "draw"
    /\ rRet
    /\ outUpdate.hasGeometry
    /\ ~outUpdate.hasTransform
    /\ mesh = outUpdate.geometry
    /\ transformOverride = <<>>
    /\ uniformBuffersMapped[0] = UpdateUniformBuffer(<<LoopTransform>>)


(***************************************************************************)
(* C37: upload before draw.  No submitted frame whose commands read the    *)
(* vertex or the index buffer is in flight while pendingTransfers still    *)
(* holds an unsignaled staging-ring copy into that buffer: drawFrame does  *)
(* not submit a draw of a buffer whose upload is outstanding.              *)
(***************************************************************************)
C37_UploadBeforeDraw ==
    \A k \in Slots :
        commandBufferPending[k] =>
            \A i \in DOMAIN pendingTransfers :
                pendingTransfers[i].dstBuffer \in slotBuffers[k] =>
                    pendingTransfers[i].signaled


(***************************************************************************)
(* C40: setMesh is all-or-nothing with respect to staging capacity.  A     *)
(* setMesh refused because the vertex or the index data of a well-formed   *)
(* mesh is larger than the staging ring leaves the renderer as it was:     *)
(* the previous active mesh, its vertex and index buffers and the          *)
(* pipeline are still in place.                                            *)
(***************************************************************************)
C40_OversizeLeavesRenderer ==
    [][(\E g \in OversizeMeshes : SetMeshOversize(g)) =>
          UNCHANGED <<mesh, vertexBuffer, indexBuffer, graphicsPipeline>>]_vars


(***************************************************************************)
(* C31: the drain.  waitAllTransfers returns only when the fence of every  *)
(* transfer that was pending at the call is signaled, and on return        *)
(* pendingTransfers is empty; setMesh gets past its drain under the same   *)
(* condition.  While the thread is inside either call the pending list     *)
(* keeps its transfers (only their fences change).  Provided every         *)
(* submitted copy completes, waitAllTransfers returns, and setMesh's wait  *)
(* for the transfers ends.                                                 *)
(***************************************************************************)
C31_DrainWaitsForEveryTransfer ==
    /\ [][(mpc = "drain" /\ mpc' = "read") =>
             /\ \A i \in DOMAIN pendingTransfers : pendingTransfers[i].signaled
             /\ pendingTransfers' = <<>>]_vars
    /\ [][(mpc = "mesh" /\ mpc' = "read") =>
             \A i \in DOMAIN pendingTransfers : pendingTransfers[i].signaled]_vars
    /\ [][(mpc \in {"drain", "mesh"} /\ mpc' = mpc) =>
             /\ Len(pendingTransfers') = Len(pendingTransfers)
             /\ \A i \in DOMAIN pendingTransfers :
                   /\ pendingTransfers'[i].fence = pendingTransfers[i].fence
                   /\ pendingTransfers[i].signaled => pendingTransfers'[i].signaled]_vars
    /\ (mpc = "drain") ~> (mpc = "read" /\ pendingTransfers = <<>>)
    /\ (mpc = "mesh") ~> (mpc = "mesh" /\ \A i \in DOMAIN pendingTransfers :
                                             pendingTransfers[i].signaled)

\* waitAllTransfers is waiting for the two uploads of setMesh(IndexedMesh):
\* the first copy has completed, the second has not
C31_Witness ==
    /\ mpc = "drain"
    /\ Len(pendingTransfers) = 2
    /\ pendingTransfers[1].signaled
    /\ ~pendingTransfers[2].signaled
    /\ pendingTransfers[2].dstBuffer = indexBuffer

(***************************************************************************)
(* C32: no fence deadlock.  Over any sequence of drawFrame and setMesh     *)
(* calls, frames aborted at acquisition included, every slot fence is      *)
(* signaled or has a queue submission in flight that will signal it,       *)
(* except the current slot's between drawFrame's reset and its own         *)
(* submit; a drawFrame aborted at acquisition leaves the fence of the      *)
(* slot the next drawFrame waits on signaled.  Provided the GPU completes  *)
(* the work it was given, every drawFrame and every setMesh returns.       *)
(***************************************************************************)
C32_NoFenceDeadlock ==
    /\ [](\A k \in Slots :
             \/ inFlightFences[k]
             \/ commandBufferPending[k]
             \/ (dpc = "record" /\ k = currentFrame))
    /\ [][(\E result \in AcquireResults : AcquireAborts(result) /\ CallerDrawAcquire(result))
             => (mpc' = "read" /\ dpc' = "idle" /\ inFlightFences'[currentFrame'])]_vars
    /\ (mpc = "draw") ~> (mpc = "read")
    /\ (mpc = "mesh") ~> (mpc = "read")

\* drawFrame is waiting for its slot's fence, which the frame submitted on
\* the slot two calls ago will signal; the other slot's frame is in flight too
C32_Witness ==
    /\ mpc = "draw"
    /\ dpc = "idle"
    /\ ~inFlightFences[currentFrame]
    /\ commandBufferPending[currentFrame]
    /\ \A k \in Slots : commandBufferPending[k]
    /\ vertexBuffer # 0


====
